---- MODULE Spec2Model ----
(***************************************************************************)
(* Decision-support tools of the supply-chain MCP servers                  *)
(* (servers/python_server.py, servers/postgresql_server.py).               *)
(*                                                                         *)
(* Every tool is a stateless function of its arguments (and, for the       *)
(* PostgreSQL tools, of the rows the queries return).  A tool call is one  *)
(* action: it draws the arguments (or takes the previous tool's output,    *)
(* when the agent threads a pipeline), and records arguments and result.   *)
(*                                                                         *)
(* Python dicts are functions from field names to values; a field that is  *)
(* absent is absent from the DOMAIN.  Hours are kept in half-hours so that *)
(* 0.5 h is an integer.                                                    *)
(***************************************************************************)
EXTENDS Integers, Sequences, FiniteSets, TLC

VARIABLES
    rpc,                  \* route tools: "idle", "modelled", "compared", "recommended"
    via_pipeline,         \* TRUE when the arguments came from the previous tool
    current_route_model,  \* model_transportation_routes: the direct route ({} if no lane)
    new_route_model,      \* model_transportation_routes: the route via the hub
    comparison_summary,   \* compare_route_effectiveness: its result
    final_answer,         \* generate_route_recommendation: its result
    spc,                  \* calculate_optimal_shift: "idle", "returned", "raised"
    shift_args,           \* calculate_optimal_shift: its arguments and the sums it read
    shift_result,         \* calculate_optimal_shift: its result, or the error raised
    tpc,                  \* optimize_final_buy_quantity: "idle", "returned"
    tco_args,             \* optimize_final_buy_quantity: its arguments
    tco_results,          \* optimize_final_buy_quantity: the candidates it costed
    tco_answer,           \* optimize_final_buy_quantity: its result
    supc,                 \* supplier tools: "idle", "searched", "selected", "raised"
    supplier_args,        \* select_optimal_supplier: its arguments
    scored_options,       \* select_optimal_supplier: the options with their scores
    supplier_result,      \* select_optimal_supplier: its result, or the error raised
    mpc,                  \* trim-mix tools: "idle", "aggregated", "identified",
                          \* "shifted", "simulated", "recommended", "raised"
    performance_args,     \* aggregate_trim_performance: its period and the window it read
    trim_performance_data,\* aggregate_trim_performance: its result
    scored_trims,         \* identify_efficiency_outliers: the trims with their ratios
    outliers,             \* identify_efficiency_outliers: its result, or the error raised
    optimal_simulation_parameters, \* calculate_optimal_shift: its result, as passed on
    simulation_result,    \* simulate_financial_impact: its result
    mix_answer,           \* generate_mix_recommendation: its result
    ipc,                  \* user_intent_parser: "idle", "invoking", "returned", "raised"
    intent_args,          \* user_intent_parser: its arguments
    output_schema,        \* user_intent_parser: the schema looked up
    llm_invocations,      \* user_intent_parser: the schemas the model was invoked with
    intent_result,        \* user_intent_parser: its result, or the error raised
    lpc,                  \* calculate_lifetime_demand: "idle", "returned", "raised"
    lifetime_args,        \* calculate_lifetime_demand: its arguments and the rows read
    lifetime_result,      \* calculate_lifetime_demand: its result, or the error raised
    apc,                  \* tools with a SUM: "idle", "returned", "raised"
    aggregate_args,       \* tools with a SUM: the tool, its arguments and the rows read
    aggregate_result,     \* tools with a SUM: the sums read and the tool's result
    shortage_pc,          \* montecarlo_shortage: "idle", "returned"
    shortage_args,        \* montecarlo_shortage: its arguments
    shortage_result,      \* montecarlo_shortage: its result
    calls,                \* database tool calls in progress: where each one is
    connections           \* the connections opened so far: who opened each, and its state

route_vars == <<rpc, via_pipeline, current_route_model, new_route_model,
                comparison_summary, final_answer>>

shift_vars == <<spc, shift_args, shift_result>>

tco_vars == <<tpc, tco_args, tco_results, tco_answer>>

supplier_vars == <<supc, supplier_args, scored_options, supplier_result>>

mix_vars == <<mpc, performance_args, trim_performance_data, scored_trims, outliers,
              optimal_simulation_parameters, simulation_result, mix_answer>>

intent_vars == <<ipc, intent_args, output_schema, llm_invocations, intent_result>>

lifetime_vars == <<lpc, lifetime_args, lifetime_result>>

aggregate_vars == <<apc, aggregate_args, aggregate_result>>

shortage_vars == <<shortage_pc, shortage_args, shortage_result>>

connection_vars == <<calls, connections>>

vars == <<route_vars, shift_vars, tco_vars, supplier_vars, mix_vars, intent_vars,
          lifetime_vars, aggregate_vars, shortage_vars, connection_vars>>

\* the families added to every frame below
other_vars == <<aggregate_vars, shortage_vars, connection_vars>>

\* what a tool of one family leaves alone: the state of the other families
not_route_vars == <<shift_vars, tco_vars, supplier_vars, mix_vars, intent_vars, lifetime_vars, other_vars>>

not_shift_vars == <<route_vars, tco_vars, supplier_vars, mix_vars, intent_vars, lifetime_vars, other_vars>>

not_tco_vars == <<route_vars, shift_vars, supplier_vars, mix_vars, intent_vars, lifetime_vars, other_vars>>

not_supplier_vars == <<route_vars, shift_vars, tco_vars, mix_vars, intent_vars, lifetime_vars, other_vars>>

not_mix_vars == <<route_vars, shift_vars, tco_vars, supplier_vars, intent_vars, lifetime_vars, other_vars>>

not_intent_vars == <<route_vars, shift_vars, tco_vars, supplier_vars, mix_vars, lifetime_vars, other_vars>>

not_lifetime_vars == <<route_vars, shift_vars, tco_vars, supplier_vars, mix_vars, intent_vars, other_vars>>

tool_vars == <<route_vars, shift_vars, tco_vars, supplier_vars, mix_vars, intent_vars, lifetime_vars>>

not_aggregate_vars == <<tool_vars, shortage_vars, connection_vars>>

not_shortage_vars == <<tool_vars, aggregate_vars, connection_vars>>

not_connection_vars == <<tool_vars, aggregate_vars, shortage_vars>>

(***************************************************************************)
(* Dicts                                                                   *)
(***************************************************************************)
EmptyDict == [k \in {} |-> 0]

\* d.get(k, default)
Get(d, k, default) == IF k \in DOMAIN d THEN d[k] ELSE default

\* the dict d without the fields outside K
Restrict(d, K) == [k \in (DOMAIN d) \cap K |-> d[k]]

\* bool(d) of a dict
Truthy(d) == DOMAIN d # {}

\* Dicts are objects: a heap is the sequence of the dicts there are, and a
\* reference to a dict is its place in the heap.

\* d[key] = value on the dict at ref
SetItem(heap, ref, key, value) ==
    [heap EXCEPT ![ref] = [k \in DOMAIN heap[ref] \cup {key} |->
                                IF k = key THEN value ELSE heap[ref][k]]]

\* a variant of copy() that hands back the dict itself
DictCopyAliased(heap, ref) == [heap |-> heap, ref |-> ref]

\* d.copy() of the dict at ref: a new dict with the same fields
DictCopy(heap, ref) == [heap |-> Append(heap, heap[ref]), ref |-> Len(heap) + 1]

\* for item in items: scored = item.copy(); scored[key] = values[i], from item
\* i on; items are the first dicts of the heap
RECURSIVE CopyAndSet(_, _, _, _, _)
CopyAndSet(heap, n, key, values, i) ==
    IF i > n THEN heap
    ELSE LET copy == DictCopy(heap, i)
         IN  CopyAndSet(SetItem(copy.heap, copy.ref, key, values[i]), n, key, values, i + 1)

\* the list items as its caller finds it after the loop
ItemsAfterLoop(items, key, values) ==
    SubSeq(CopyAndSet(items, Len(items), key, values, 1), 1, Len(items))

(***************************************************************************)
(* Floats that may be float('inf'), and None                               *)
(***************************************************************************)
Num(n) == [kind |-> "num", v |-> n]
Inf == [kind |-> "inf", v |-> 0]
None == [kind |-> "none", v |-> 0]

\* a < b on floats: inf is above every number and not below itself
FLt(a, b) ==
    CASE a.kind = "num" /\ b.kind = "num" -> a.v < b.v
      [] a.kind = "num" /\ b.kind = "inf" -> TRUE
      [] OTHER -> FALSE

\* a == b on floats
FEq(a, b) == a.kind = b.kind /\ a.v = b.v

\* a - b on floats, for the cases the tools reach (b is never inf there)
FSub(a, b) ==
    CASE a.kind = "num" /\ b.kind = "num" -> Num(a.v - b.v)
      [] a.kind = "inf" /\ b.kind = "num" -> Inf
      [] OTHER -> [kind |-> "nan", v |-> 0]

(***************************************************************************)
(* Rows of the data source                                                 *)
(***************************************************************************)
\* largest standard_transit_hr of a lane row, in half-hours
MaxTransitHalfHr == 4

\* largest avg_handling_hr of a hub row, in half-hours
MaxHandlingHalfHr == 1

LaneCosts == {0, 400, 1000}

HandlingCosts == {0, 100}

\* cursor.fetchone() when no row matches
NoRow == EmptyDict

LaneRows(id) ==
    { [lane_id |-> id, standard_transit_hr |-> t, standard_cost_per_shipment |-> c] :
        t \in 0..MaxTransitHalfHr, c \in LaneCosts }

\* the second leg's lanes also cost 300, the price of the documented example
Leg2Rows ==
    LaneRows("LANE-2") \cup
    { [lane_id |-> "LANE-2", standard_transit_hr |-> 2, standard_cost_per_shipment |-> 300] }

HubRows ==
    { [location_id |-> "HUB", avg_handling_hr |-> h, handling_cost_per_unit |-> c] :
        h \in 0..MaxHandlingHalfHr, c \in HandlingCosts }

(***************************************************************************)
(* Route tools                                                             *)
(***************************************************************************)
\* cost of one hour of transit or handling
TimeValuePerHour == 500

\* hours * 500, for a time kept in half-hours
TimeCost(halfhours) == (halfhours * TimeValuePerHour) \div 2

\* model_transportation_routes: the direct-route model of the row found
CurrentRouteModel(direct_route) ==
    IF Truthy(direct_route)
    THEN [lane_id |-> direct_route.lane_id,
          total_transit_hr |-> direct_route.standard_transit_hr,
          direct_cost |-> direct_route.standard_cost_per_shipment]
    ELSE EmptyDict

\* model_transportation_routes: the hub-route model of the rows found
NewRouteModel(leg1, hub, leg2) ==
    [leg1 |-> [lane_id |-> IF Truthy(leg1) THEN leg1.lane_id ELSE "None",
               transit_hr |-> IF Truthy(leg1) THEN leg1.standard_transit_hr ELSE 0,
               cost |-> IF Truthy(leg1) THEN leg1.standard_cost_per_shipment ELSE 0],
     hub |-> [location_id |-> "HUB",
              handling_hr |-> IF Truthy(hub) THEN hub.avg_handling_hr ELSE 0,
              handling_cost |-> IF Truthy(hub) THEN hub.handling_cost_per_unit ELSE 0],
     leg2 |-> [lane_id |-> IF Truthy(leg2) THEN leg2.lane_id ELSE "None",
               transit_hr |-> IF Truthy(leg2) THEN leg2.standard_transit_hr ELSE 0,
               cost |-> IF Truthy(leg2) THEN leg2.standard_cost_per_shipment ELSE 0]]

\* a variant that prices every hour of the direct route at 0
CurrentRouteSummaryNoTimeCost(model) ==
    IF Truthy(model)
    THEN [total_time_hr |-> Get(model, "total_transit_hr", 0),
          direct_cost |-> Get(model, "direct_cost", 0),
          effective_total_cost |-> Get(model, "direct_cost", 0)]
    ELSE EmptyDict

\* compare_route_effectiveness: the summary of the direct route
CurrentRouteSummary(model) ==
    IF Truthy(model)
    THEN LET direct_time == Get(model, "total_transit_hr", 0)
             direct_cost == Get(model, "direct_cost", 0)
         IN  [total_time_hr |-> direct_time,
              direct_cost |-> direct_cost,
              effective_total_cost |-> direct_cost + TimeCost(direct_time)]
    ELSE EmptyDict

\* compare_route_effectiveness: the summary of the route via the hub
NewRouteSummary(model) ==
    LET leg1 == Get(model, "leg1", EmptyDict)
        hub == Get(model, "hub", EmptyDict)
        leg2 == Get(model, "leg2", EmptyDict)
        new_total_time == Get(leg1, "transit_hr", 0) + Get(hub, "handling_hr", 0)
                            + Get(leg2, "transit_hr", 0)
        new_direct_cost == Get(leg1, "cost", 0) + Get(hub, "handling_cost", 0)
                            + Get(leg2, "cost", 0)
    IN  [total_time_hr |-> new_total_time,
         direct_cost |-> new_direct_cost,
         effective_total_cost |-> new_direct_cost + TimeCost(new_total_time)]

\* compare_route_effectiveness: its result
CompareResult(cur, new) ==
    [current_route |-> CurrentRouteSummary(cur), new_route |-> NewRouteSummary(new)]

\* effective_total_cost of a route summary, float('inf') when absent
EffectiveCost(route) ==
    IF "effective_total_cost" \in DOMAIN route THEN Num(route.effective_total_cost) ELSE Inf

\* a variant that prefers the hub route on equal costs
RecommendationHubOnTie(cur_cost, new_cost) ==
    IF cur_cost.kind = "inf" /\ new_cost.kind = "inf" THEN "No Route Found"
    ELSE IF ~FLt(cur_cost, new_cost) THEN "New Route via Hub"
    ELSE "Current Direct Route"

\* generate_route_recommendation: the recommendation for two effective costs
Recommendation(cur_cost, new_cost) ==
    IF FEq(cur_cost, Inf) /\ FEq(new_cost, Inf) THEN "No Route Found"
    ELSE IF FLt(new_cost, cur_cost) THEN "New Route via Hub"
    ELSE "Current Direct Route"

\* a variant that reports the difference of the costs whatever is recommended
ExpectedSavingsUnclamped(recommendation, cur_cost, new_cost) ==
    IF new_cost.kind = "num" THEN FSub(cur_cost, new_cost) ELSE Num(0)

\* generate_route_recommendation: expected_savings
ExpectedSavings(recommendation, cur_cost, new_cost) ==
    IF recommendation = "New Route via Hub" THEN FSub(cur_cost, new_cost) ELSE Num(0)

\* generate_route_recommendation: its result
RouteFinalAnswer(summary) ==
    LET current_route == Get(summary, "current_route", EmptyDict)
        new_route == Get(summary, "new_route", EmptyDict)
        current_effective_cost == EffectiveCost(current_route)
        new_effective_cost == EffectiveCost(new_route)
        recommendation == Recommendation(current_effective_cost, new_effective_cost)
    IN  [recommendation |-> recommendation,
         comparison |->
            [current_route_effective_cost |->
                IF Truthy(current_route) THEN current_effective_cost ELSE None,
             new_route_effective_cost |-> new_effective_cost,
             expected_savings |->
                ExpectedSavings(recommendation, current_effective_cost, new_effective_cost)]]

NoAnswer == EmptyDict

\* arguments an agent may pass to compare_route_effectiveness on its own:
\* models with some of their fields, or some of their legs, left out
SampleCurrentModel == [lane_id |-> "LANE-D", total_transit_hr |-> 4, direct_cost |-> 1000]

SampleNewModel ==
    [leg1 |-> [transit_hr |-> 2, cost |-> 400],
     hub |-> [handling_hr |-> 1, handling_cost |-> 100],
     leg2 |-> [transit_hr |-> 2, cost |-> 300]]

PartialCurrentModels == { Restrict(SampleCurrentModel, K) : K \in SUBSET DOMAIN SampleCurrentModel }

PartialNewModels ==
    { Restrict(SampleNewModel, K) : K \in SUBSET DOMAIN SampleNewModel } \cup
    { [SampleNewModel EXCEPT !.leg1 = Restrict(@, K1), !.hub = Restrict(@, K2)] :
        K1 \in SUBSET {"transit_hr", "cost"}, K2 \in SUBSET {"handling_hr", "handling_cost"} }

\* arguments an agent may pass to generate_route_recommendation on its own
PartialSummaries ==
    LET full == CompareResult(SampleCurrentModel, SampleNewModel)
        routes == { Restrict(full.new_route, K) : K \in SUBSET DOMAIN full.new_route }
    IN  { Restrict([current_route |-> c, new_route |-> n], K) :
            c \in routes \cup {full.current_route}, n \in routes,
            K \in SUBSET {"current_route", "new_route"} }

RouteInit ==
    /\ rpc = "idle"
    /\ via_pipeline = FALSE
    /\ current_route_model = EmptyDict
    /\ new_route_model = EmptyDict
    /\ comparison_summary = EmptyDict
    /\ final_answer = NoAnswer

\* model_transportation_routes, on the rows the four queries return
ModelTransportationRoutes ==
    /\ rpc = "idle"
    /\ \E direct_route \in LaneRows("LANE-D") \cup {NoRow},
          leg1 \in LaneRows("LANE-1") \cup {NoRow},
          hub \in HubRows \cup {NoRow},
          leg2 \in Leg2Rows \cup {NoRow} :
            /\ current_route_model' = CurrentRouteModel(direct_route)
            /\ new_route_model' = NewRouteModel(leg1, hub, leg2)
    /\ rpc' = "modelled"
    /\ via_pipeline' = TRUE
    /\ UNCHANGED <<comparison_summary, final_answer>>
    /\ UNCHANGED not_route_vars

\* compare_route_effectiveness, on the models of the previous tool
CompareRouteEffectiveness ==
    /\ rpc = "modelled"
    /\ comparison_summary' = CompareResult(current_route_model, new_route_model)
    /\ rpc' = "compared"
    /\ UNCHANGED <<via_pipeline, current_route_model, new_route_model, final_answer>>
    /\ UNCHANGED not_route_vars

\* compare_route_effectiveness, on models the agent wrote itself
CompareRouteEffectivenessDirect ==
    /\ rpc = "idle"
    /\ \E cur \in PartialCurrentModels, new \in PartialNewModels :
            /\ current_route_model' = cur
            /\ new_route_model' = new
            /\ comparison_summary' = CompareResult(cur, new)
    /\ rpc' = "compared"
    /\ via_pipeline' = FALSE
    /\ UNCHANGED final_answer
    /\ UNCHANGED not_route_vars

\* generate_route_recommendation, on the summary of the previous tool
GenerateRouteRecommendation ==
    /\ rpc = "compared"
    /\ final_answer' = RouteFinalAnswer(comparison_summary)
    /\ rpc' = "recommended"
    /\ UNCHANGED <<via_pipeline, current_route_model, new_route_model, comparison_summary>>
    /\ UNCHANGED not_route_vars

\* generate_route_recommendation, on a summary the agent wrote itself
GenerateRouteRecommendationDirect ==
    /\ rpc = "idle"
    /\ \E summary \in PartialSummaries :
            /\ comparison_summary' = summary
            /\ final_answer' = RouteFinalAnswer(summary)
    /\ rpc' = "recommended"
    /\ via_pipeline' = FALSE
    /\ UNCHANGED <<current_route_model, new_route_model>>
    /\ UNCHANGED not_route_vars

\* the answer goes back to the caller; the tools keep nothing
RouteReturn ==
    /\ rpc = "recommended"
    /\ rpc' = "idle"
    /\ via_pipeline' = FALSE
    /\ current_route_model' = EmptyDict
    /\ new_route_model' = EmptyDict
    /\ comparison_summary' = EmptyDict
    /\ final_answer' = NoAnswer
    /\ UNCHANGED not_route_vars

RouteNext ==
    \/ ModelTransportationRoutes
    \/ CompareRouteEffectiveness
    \/ CompareRouteEffectivenessDirect
    \/ GenerateRouteRecommendation
    \/ GenerateRouteRecommendationDirect
    \/ RouteReturn

(***************************************************************************)
(* Claims about the route tools                                            *)
(***************************************************************************)
\* the arguments in current_route_model / new_route_model were compared
CompareRan == rpc = "compared" \/ (rpc = "recommended" /\ via_pipeline)

NoHubLegFound ==
    /\ new_route_model.leg1.transit_hr = 0 /\ new_route_model.leg1.cost = 0
    /\ new_route_model.hub.handling_hr = 0 /\ new_route_model.hub.handling_cost = 0
    /\ new_route_model.leg2.transit_hr = 0 /\ new_route_model.leg2.cost = 0

\* C1: in the pipeline model_transportation_routes -> compare_route_effectiveness
\* -> generate_route_recommendation, when no direct lane exists and no hub leg
\* was found (all hub legs zero), the recommendation is "No Route Found".
C1_NoRouteFound ==
    (rpc = "recommended" /\ via_pipeline /\ ~Truthy(current_route_model) /\ NoHubLegFound)
        => final_answer.recommendation = "No Route Found"

\* the two effective costs generate_route_recommendation reads, absent = infinite
SummaryCurrentCost == EffectiveCost(Get(comparison_summary, "current_route", EmptyDict))

SummaryNewCost == EffectiveCost(Get(comparison_summary, "new_route", EmptyDict))

\* C2 as stated: "New Route via Hub" iff the hub cost is strictly lower than the
\* direct cost, and "Current Direct Route" for equal effective costs.
C2_Original ==
    rpc = "recommended" =>
        /\ (final_answer.recommendation = "New Route via Hub")
                <=> FLt(SummaryNewCost, SummaryCurrentCost)
        /\ FEq(SummaryNewCost, SummaryCurrentCost)
                => final_answer.recommendation = "Current Direct Route"

\* C2 amended: "New Route via Hub" iff the hub cost is strictly lower than the
\* direct cost (an absent cost counting as infinite); for equal finite costs
\* "Current Direct Route"; when both costs are absent "No Route Found".
C2_Amended ==
    rpc = "recommended" =>
        /\ (final_answer.recommendation = "New Route via Hub")
                <=> FLt(SummaryNewCost, SummaryCurrentCost)
        /\ (FEq(SummaryNewCost, SummaryCurrentCost) /\ SummaryNewCost.kind = "num")
                => final_answer.recommendation = "Current Direct Route"
        /\ (SummaryNewCost.kind = "inf" /\ SummaryCurrentCost.kind = "inf")
                => final_answer.recommendation = "No Route Found"

\* C2 witness: two equal finite effective costs were compared and the direct
\* route was recommended
C2_Witness ==
    /\ rpc = "recommended"
    /\ SummaryNewCost.kind = "num"
    /\ FEq(SummaryNewCost, SummaryCurrentCost)
    /\ final_answer.recommendation = "Current Direct Route"

\* the formulas of the claim, on the arguments (times in half-hours)
ClaimDirectCost ==
    Get(current_route_model, "direct_cost", 0)
        + (500 * Get(current_route_model, "total_transit_hr", 0)) \div 2

ClaimHubCost ==
    LET leg1 == Get(new_route_model, "leg1", EmptyDict)
        hub == Get(new_route_model, "hub", EmptyDict)
        leg2 == Get(new_route_model, "leg2", EmptyDict)
    IN  (Get(leg1, "cost", 0) + Get(hub, "handling_cost", 0) + Get(leg2, "cost", 0))
        + (500 * (Get(leg1, "transit_hr", 0) + Get(hub, "handling_hr", 0)
                    + Get(leg2, "transit_hr", 0))) \div 2

\* the documented example: direct 1000 / 2 h; hub legs 400 / 1 h, 100 / 0.5 h, 300 / 1 h
IsRouteExample ==
    /\ Truthy(current_route_model)
    /\ current_route_model.direct_cost = 1000 /\ current_route_model.total_transit_hr = 4
    /\ new_route_model.leg1.cost = 400 /\ new_route_model.leg1.transit_hr = 2
    /\ new_route_model.hub.handling_cost = 100 /\ new_route_model.hub.handling_hr = 1
    /\ new_route_model.leg2.cost = 300 /\ new_route_model.leg2.transit_hr = 2

RouteExampleAnswer ==
    (rpc = "recommended" /\ via_pipeline /\ IsRouteExample) =>
        /\ comparison_summary.current_route.effective_total_cost = 2000
        /\ comparison_summary.new_route.effective_total_cost = 2050
        /\ final_answer.recommendation = "Current Direct Route"

\* C3 as stated: for every input the direct effective cost is
\* direct_cost + 500 * total_transit_hr and the hub effective cost is the sum of
\* the three costs + 500 * the sum of the three times, anything missing counted
\* as 0; the example gives 2000 and 2050 and the direct route.
C3_Original ==
    /\ CompareRan =>
        /\ FEq(EffectiveCost(comparison_summary.current_route), Num(ClaimDirectCost))
        /\ FEq(EffectiveCost(comparison_summary.new_route), Num(ClaimHubCost))
    /\ RouteExampleAnswer

\* C3 amended: the same formulas, for every input whose current_route_model is
\* not empty; for an empty current_route_model no direct effective cost is
\* reported at all (the summary of the direct route is empty).
C3_Amended ==
    /\ CompareRan =>
        /\ Truthy(current_route_model)
            => FEq(EffectiveCost(comparison_summary.current_route), Num(ClaimDirectCost))
        /\ ~Truthy(current_route_model) => ~Truthy(comparison_summary.current_route)
        /\ FEq(EffectiveCost(comparison_summary.new_route), Num(ClaimHubCost))
    /\ RouteExampleAnswer

\* C3 witness: the pipeline ran on the documented example
C3_Witness ==
    /\ rpc = "recommended" /\ via_pipeline /\ IsRouteExample
    /\ final_answer.recommendation = "Current Direct Route"

\* C4: expected_savings is direct effective cost - hub effective cost when the
\* recommendation is "New Route via Hub" and 0 otherwise; it is never negative.
C4_ExpectedSavings ==
    rpc = "recommended" =>
        LET savings == final_answer.comparison.expected_savings
        IN  /\ final_answer.recommendation = "New Route via Hub"
                => FEq(savings, FSub(SummaryCurrentCost, SummaryNewCost))
            /\ final_answer.recommendation # "New Route via Hub" => FEq(savings, Num(0))
            /\ savings.kind = "inf" \/ (savings.kind = "num" /\ savings.v >= 0)

\* C4 witness: the hub route was recommended over a dearer direct route
C4_Witness ==
    /\ rpc = "recommended"
    /\ final_answer.recommendation = "New Route via Hub"
    /\ SummaryCurrentCost.kind = "num"
    /\ final_answer.comparison.expected_savings.kind = "num"
    /\ final_answer.comparison.expected_savings.v > 0

\* C29: for every output of compare_route_effectiveness given to
\* generate_route_recommendation, the case without a direct route included,
\* expected_savings and new_route_effective_cost are finite numbers
C29_FiniteComparison ==
    (rpc = "recommended" /\ via_pipeline) =>
        /\ final_answer.comparison.expected_savings.kind = "num"
        /\ final_answer.comparison.new_route_effective_cost.kind = "num"

(***************************************************************************)
(* Numbers of calculate_optimal_shift                                      *)
(*                                                                         *)
(* SUM(forecasted_qty) is an int; SUM(available_hours) is a NUMERIC and    *)
(* arrives as a decimal.Decimal; the production times are ints.  A         *)
(* Decimal is [n, s]: the value n / 10^s.  Decimal arithmetic rounds its   *)
(* result half-even to the context's significant digits (28 in Python):    *)
(* the model keeps DecimalPrec digits, the rounding being the same at      *)
(* every precision.                                                        *)
(***************************************************************************)
\* significant digits a Decimal result keeps
DecimalPrec == 5

RECURSIVE Pow10(_)
Pow10(k) == IF k <= 0 THEN 1 ELSE 10 * Pow10(k - 1)

RECURSIVE NumDigits(_)
NumDigits(n) == IF n < 10 THEN 1 ELSE 1 + NumDigits(n \div 10)

Dec(n, s) == [n |-> n, s |-> s]

\* num / den rounded to an integer, ties to the even one (ROUND_HALF_EVEN)
RoundHalfEven(num, den) ==
    LET q == num \div den
        r == num % den
    IN  IF 2 * r < den THEN q
        ELSE IF 2 * r > den THEN q + 1
        ELSE IF q % 2 = 0 THEN q ELSE q + 1

\* the number of places to shift a so that a / t has DecimalPrec digits
RECURSIVE QuotientShift(_, _, _)
QuotientShift(n, t, k) ==
    IF n * Pow10(k) >= t * Pow10(DecimalPrec - 1) THEN k ELSE QuotientShift(n, t, k + 1)

\* Decimal / int, for a >= 0 and t > 0
DecDivInt(a, t) ==
    IF a.n = 0 THEN Dec(0, 0)
    ELSE LET k == QuotientShift(a.n, t, 0)
         IN  Dec(RoundHalfEven(a.n * Pow10(k), t), a.s + k)

\* Decimal * int, for a >= 0 and t >= 0
DecMulInt(a, t) ==
    LET m == a.n * t
        k == NumDigits(m) - DecimalPrec
    IN  IF k <= 0 THEN Dec(m, a.s) ELSE Dec(RoundHalfEven(m, Pow10(k)), a.s - k)

\* int < Decimal
IntLtDec(d, a) == d * Pow10(a.s) < a.n

\* Decimal < int
DecLtInt(a, d) == a.n < d * Pow10(a.s)

\* a variant of int() that rounds up
DecToIntCeiling(a) == (a.n + Pow10(a.s) - 1) \div Pow10(a.s)

\* int(Decimal), for a >= 0
DecToInt(a) == a.n \div Pow10(a.s)

(***************************************************************************)
(* Period strings: sequences of characters                                 *)
(***************************************************************************)
DigitChars == {"0", "1", "2", "3", "4", "5", "6", "7", "8", "9"}

UpperToLower ==
    [ch \in {"A", "D", "E", "H", "K", "M", "N", "O", "Q", "R", "S", "T", "U", "W", "Y"} |->
        CASE ch = "A" -> "a" [] ch = "D" -> "d" [] ch = "E" -> "e" [] ch = "H" -> "h"
          [] ch = "K" -> "k" [] ch = "M" -> "m" [] ch = "N" -> "n" [] ch = "O" -> "o"
          [] ch = "Q" -> "q" [] ch = "R" -> "r" [] ch = "S" -> "s" [] ch = "T" -> "t"
          [] ch = "U" -> "u" [] ch = "W" -> "w" [] ch = "Y" -> "y"]

\* str.lower()
Lower(str) ==
    [i \in 1..Len(str) |-> IF str[i] \in DOMAIN UpperToLower THEN UpperToLower[str[i]] ELSE str[i]]

\* str.split(): the maximal runs of characters that are not spaces
RECURSIVE SplitFrom(_, _, _)
SplitFrom(str, i, word) ==
    IF i > Len(str) THEN (IF word = <<>> THEN <<>> ELSE <<word>>)
    ELSE IF str[i] = " "
         THEN (IF word = <<>> THEN <<>> ELSE <<word>>) \o SplitFrom(str, i + 1, <<>>)
         ELSE SplitFrom(str, i + 1, Append(word, str[i]))

Split(str) == SplitFrom(str, 1, <<>>)

\* str.isdigit()
IsDigit(str) == str # <<>> /\ \A i \in 1..Len(str) : str[i] \in DigitChars

\* sub in str
Contains(sub, str) ==
    \E i \in 1..(Len(str) - Len(sub) + 1) : SubSeq(str, i, i + Len(sub) - 1) = sub

Quarter == <<"q", "u", "a", "r", "t", "e", "r">>

Year == <<"y", "e", "a", "r">>

Month == <<"m", "o", "n", "t", "h">>

\* calculate_optimal_shift: the unit of the period, or the ValueError raised
ParsePeriod(period) ==
    LET parts == Split(period)
    IN  IF Len(parts) = 2 /\ IsDigit(parts[1])
        THEN LET unit == Lower(parts[2])
             IN  IF Contains(Quarter, unit) THEN "quarter"
                 ELSE IF Contains(Year, unit) THEN "year"
                 ELSE IF Contains(Month, unit) THEN "month"
                 ELSE "unknown time unit"
        ELSE "invalid period format"

PeriodErrors == {"unknown time unit", "invalid period format"}

(***************************************************************************)
(* calculate_optimal_shift                                                 *)
(***************************************************************************)
\* a variant that names the demand forecast as binding on equality too
BindingConstraintOnEquality(market_constraint_qty, max_producible_qty) ==
    IF ~DecLtInt(max_producible_qty, market_constraint_qty)
    THEN "Market Demand Forecast" ELSE "Production Capacity"

\* calculate_optimal_shift: binding_constraint
BindingConstraint(market_constraint_qty, max_producible_qty) ==
    IF IntLtDec(market_constraint_qty, max_producible_qty)
    THEN "Market Demand Forecast" ELSE "Production Capacity"

\* calculate_optimal_shift: the two quantities and the binding constraint, from
\* the two sums read and the two production times
OptimalShift(market_constraint_qty, production_constraint_hours, most_efficient_time, least_efficient_time) ==
    LET max_producible_qty ==
            IF most_efficient_time > 0
            THEN DecDivInt(production_constraint_hours, most_efficient_time)
            ELSE Dec(0, 0)
        \* min(int, Decimal) is the Decimal only when it is the smaller one; the
        \* quotient is a Decimal, the 0 that stands in for it is an int
        takes_quotient == DecLtInt(max_producible_qty, market_constraint_qty)
        is_decimal == takes_quotient /\ most_efficient_time > 0
        reallocate_qty ==
            IF takes_quotient THEN max_producible_qty ELSE Dec(market_constraint_qty, 0)
        \* Decimal * int rounds to the context's precision; int * int is exact
        hours_to_free_up ==
            IF is_decimal
            THEN DecMulInt(reallocate_qty, most_efficient_time)
            ELSE Dec(reallocate_qty.n * most_efficient_time, 0)
        \* Decimal / int rounds likewise; int / int is a float, and int() of it is
        \* the integer quotient for quantities of this size
        reduce_qty ==
            IF least_efficient_time > 0
            THEN (IF is_decimal
                  THEN DecToInt(DecDivInt(hours_to_free_up, least_efficient_time))
                  ELSE hours_to_free_up.n \div least_efficient_time)
            ELSE 0
    IN  [reduce_target |-> [product_id |-> "TRIM-LOW", quantity |-> reduce_qty],
         reallocate_to |-> [product_id |-> "TRIM-HIGH", quantity |-> DecToInt(reallocate_qty)],
         binding_constraint |-> BindingConstraint(market_constraint_qty, max_producible_qty)]

\* production times of the two trims (Products.standard_production_time_hours)
MaxUnitTime == 3

UnitTimes == (-1)..MaxUnitTime

\* SUM(forecasted_qty) over the period
ForecastSums == {0, 3, 33, 34, 40, 50}

\* SUM(available_hours) over the period
CapacitySums == {Dec(0, 0), Dec(10, 0), Dec(100, 0), Dec(750, 2)}

\* period arguments
Periods ==
    { <<"1", " ", "q", "u", "a", "r", "t", "e", "r">>,
      <<"2", " ", "Q", "u", "a", "r", "t", "e", "r", "s">>,
      <<"1", "0", " ", "y", "e", "a", "r", "s">>,
      <<"3", " ", "M", "O", "N", "T", "H", "S">>,
      <<"2", " ", "w", "e", "e", "k", "s">>,
      <<"3", "0", " ", "D", "a", "y", "s">>,
      <<"1", " ", "d", "a", "y">>,
      <<"1", " ", "h", "o", "u", "r">>,
      <<"1", " ", "m", "o", "n", "t", "h", "s", "a", "g", "o">>,
      <<"o", "n", "e", " ", "m", "o", "n", "t", "h">>,
      <<"q", "u", "a", "r", "t", "e", "r">>,
      <<"1", " ", "m", "o", "n", "t", "h", " ", "a", "g", "o">>,
      <<"-", "1", " ", "y", "e", "a", "r">>,
      <<>> }

NoShift == EmptyDict

ShiftInit ==
    /\ spc = "idle"
    /\ shift_args = NoShift
    /\ shift_result = NoShift

\* calculate_optimal_shift, on its arguments and the two sums its queries return
CalculateOptimalShift ==
    /\ spc = "idle"
    /\ \E least_efficient_time \in UnitTimes, most_efficient_time \in UnitTimes,
          period \in Periods, total_forecast \in ForecastSums,
          total_available \in CapacitySums :
            /\ shift_args' = [least_efficient_time |-> least_efficient_time,
                              most_efficient_time |-> most_efficient_time,
                              period |-> period,
                              total_forecast |-> total_forecast,
                              total_available |-> total_available]
            /\ IF ParsePeriod(period) \in PeriodErrors
               THEN /\ spc' = "raised"
                    /\ shift_result' = [error |-> "ValueError", message |-> ParsePeriod(period)]
               ELSE /\ spc' = "returned"
                    /\ shift_result' = OptimalShift(total_forecast, total_available,
                                                    most_efficient_time, least_efficient_time)
    /\ UNCHANGED not_shift_vars

\* the result, or the error, goes back to the caller
ShiftReturn ==
    /\ spc \in {"returned", "raised"}
    /\ spc' = "idle"
    /\ shift_args' = NoShift
    /\ shift_result' = NoShift
    /\ UNCHANGED not_shift_vars

ShiftNext == CalculateOptimalShift \/ ShiftReturn

(***************************************************************************)
(* Claims about calculate_optimal_shift                                    *)
(***************************************************************************)
\* demand_bound < capacity_hours / unit_time, in exact arithmetic, the quotient
\* taken as 0 when unit_time <= 0
ClaimDemandBelowCapacity ==
    IF shift_args.most_efficient_time > 0
    THEN shift_args.total_forecast * shift_args.most_efficient_time
            * Pow10(shift_args.total_available.s) < shift_args.total_available.n
    ELSE shift_args.total_forecast < 0

IsShiftExample ==
    /\ shift_args.most_efficient_time = 2
    /\ shift_args.total_available = Dec(100, 0)
    /\ shift_args.total_forecast = 40

\* C5: binding_constraint is "Market Demand Forecast" exactly when the demand
\* bound is strictly below capacity_hours / unit_time (0 when unit_time <= 0) and
\* "Production Capacity" otherwise, equality included; unit_time 2, capacity
\* 100, demand 40 give reallocate quantity 40 and "Market Demand Forecast".
C5_BindingConstraint ==
    spc = "returned" =>
        /\ ClaimDemandBelowCapacity
            => shift_result.binding_constraint = "Market Demand Forecast"
        /\ ~ClaimDemandBelowCapacity
            => shift_result.binding_constraint = "Production Capacity"
        /\ IsShiftExample =>
            /\ shift_result.reallocate_to.quantity = 40
            /\ shift_result.binding_constraint = "Market Demand Forecast"

\* C5 witness: the documented example was computed
C5_Witness ==
    /\ spc = "returned"
    /\ IsShiftExample
    /\ shift_result.binding_constraint = "Market Demand Forecast"
    /\ shift_result.reallocate_to.quantity = 40

\* floor(min(demand_bound, capacity_hours / to_time)), in exact arithmetic
ClaimReallocateQty ==
    LET d == shift_args.total_forecast
        c == shift_args.total_available
        t == shift_args.most_efficient_time
    IN  IF t <= 0 THEN (IF d < 0 THEN d ELSE 0)
        ELSE IF d * t * Pow10(c.s) <= c.n THEN d ELSE c.n \div (t * Pow10(c.s))

\* floor(min(demand_bound, capacity_hours / to_time) * to_time / from_time), in
\* exact arithmetic, 0 when from_time <= 0
ClaimReduceQty ==
    LET d == shift_args.total_forecast
        c == shift_args.total_available
        t == shift_args.most_efficient_time
        f == shift_args.least_efficient_time
    IN  IF f <= 0 \/ t <= 0 THEN 0
        ELSE IF d * t * Pow10(c.s) <= c.n THEN (d * t) \div f
        ELSE c.n \div (f * Pow10(c.s))

\* C6: for non-negative inputs reallocate_to.quantity is
\* floor(min(demand, capacity / to_time)) and reduce_target.quantity is
\* floor(min(demand, capacity / to_time) * to_time / from_time), the quotient
\* being 0 when to_time <= 0 and the reduce quantity 0 when from_time <= 0.
C6_Quantities ==
    (/\ spc = "returned"
     /\ shift_args.most_efficient_time >= 0
     /\ shift_args.least_efficient_time >= 0) =>
        /\ shift_result.reallocate_to.quantity = ClaimReallocateQty
        /\ shift_result.reduce_target.quantity = ClaimReduceQty

Week == <<"w", "e", "e", "k">>

Day == <<"d", "a", "y">>

UnitWords ==
    { Quarter, Year, Month, Week, Day,
      Append(Quarter, "s"), Append(Year, "s"), Append(Month, "s"), Append(Week, "s"),
      Append(Day, "s") }

\* "<integer> <unit>": digits, one space, and one of the five units in any
\* letter case, singular or plural
ClaimPeriodForm(period) ==
    \E i \in 2..Len(period) :
        /\ IsDigit(SubSeq(period, 1, i - 1))
        /\ period[i] = " "
        /\ Lower(SubSeq(period, i + 1, Len(period))) \in UnitWords

\* C7: every period "<integer> <unit>" with unit quarter, month, year, week or
\* day (any case, singular or plural) is accepted and a result returned; every
\* other period string fails with a ValueError.
C7_PeriodAccepted ==
    spc # "idle" =>
        /\ ClaimPeriodForm(shift_args.period) => spc = "returned"
        /\ ~ClaimPeriodForm(shift_args.period) => spc = "raised"

\* C27: for non-negative inputs the plan of calculate_optimal_shift is
\* feasible: reallocate_to.quantity is at most the forecast demand,
\* reallocate_to.quantity * to_time is at most the production capacity hours,
\* and reduce_target.quantity * from_time is at most the production capacity
\* hours
C27_PlanFeasible ==
    (/\ spc = "returned"
     /\ shift_args.most_efficient_time >= 0
     /\ shift_args.least_efficient_time >= 0) =>
        LET capacity == shift_args.total_available
        IN  /\ shift_result.reallocate_to.quantity <= shift_args.total_forecast
            /\ shift_result.reallocate_to.quantity * shift_args.most_efficient_time
                    * Pow10(capacity.s) <= capacity.n
            /\ shift_result.reduce_target.quantity * shift_args.least_efficient_time
                    * Pow10(capacity.s) <= capacity.n

\* C27 witness: capacity 7.50 h binds a demand of 33 at 2 h a unit: 3 units are
\* reallocated (6 h) and 3 units of 2 h reduced, within the 7.5 h
C27_Witness ==
    /\ spc = "returned"
    /\ shift_args.total_available = Dec(750, 2)
    /\ shift_args.total_forecast = 33
    /\ shift_args.most_efficient_time = 2
    /\ shift_args.least_efficient_time = 2
    /\ shift_result.binding_constraint = "Production Capacity"
    /\ shift_result.reallocate_to.quantity = 3
    /\ shift_result.reduce_target.quantity = 3

(***************************************************************************)
(* get_component_sourcing_data and optimize_final_buy_quantity             *)
(***************************************************************************)
Max(a, b) == IF a >= b THEN a ELSE b

SetMin(S) == CHOOSE x \in S : \A y \in S : x <= y

\* sorted(set): ascending
RECURSIVE SortedSeq(_)
SortedSeq(S) == IF S = {} THEN <<>> ELSE <<SetMin(S)>> \o SortedSeq(S \ {SetMin(S)})

\* one step of the stable descending sort by min_qty: tier goes behind the tiers
\* of sorted whose min_qty is not smaller
RECURSIVE InsertDescending(_, _)
InsertDescending(sorted, tier) ==
    IF sorted = <<>> THEN <<tier>>
    ELSE IF Head(sorted).min_qty >= tier.min_qty
         THEN <<Head(sorted)>> \o InsertDescending(Tail(sorted), tier)
         ELSE <<tier>> \o sorted

\* sorted(tiers, key=min_qty, reverse=True): tiers of equal min_qty keep their order
RECURSIVE SortedDescending(_)
SortedDescending(tiers) ==
    IF tiers = <<>> THEN <<>>
    ELSE InsertDescending(SortedDescending(SubSeq(tiers, 1, Len(tiers) - 1)), tiers[Len(tiers)])

\* get_price_for_quantity
GetPriceForQuantity(quantity, tiers) ==
    LET sorted == SortedDescending(tiers)
        applicable == { i \in 1..Len(sorted) : quantity >= sorted[i].min_qty }
    IN  IF applicable # {} THEN sorted[SetMin(applicable)].price
        ELSE IF tiers # <<>> THEN tiers[1].price ELSE 0

\* a variant that leaves min_order_qty out of the candidates
CandidateQuantitiesWithoutMinimum(net_required_units, min_order_qty, pricing_tiers) ==
    {net_required_units} \cup { pricing_tiers[i].min_qty : i \in 1..Len(pricing_tiers) }

\* optimize_final_buy_quantity: the quantities it considers
CandidateQuantities(net_required_units, min_order_qty, pricing_tiers) ==
    {net_required_units, min_order_qty}
        \cup { pricing_tiers[i].min_qty : i \in 1..Len(pricing_tiers) }

\* a variant that charges the obsolescence cost on a shortfall as well
CostedCandidateShortfallCharged(qty, net_required_units, pricing_tiers, obsolescence_cost_per_unit) ==
    LET unit_price == GetPriceForQuantity(qty, pricing_tiers)
        purchase_cost == qty * unit_price
        surplus_qty == Max(qty - net_required_units, net_required_units - qty)
        obsolescence_cost == surplus_qty * obsolescence_cost_per_unit
        total_cost == purchase_cost + obsolescence_cost
    IN  [quantity |-> qty,
         tco |-> total_cost,
         reason |-> [text |-> "Ordering", quantity |-> qty, unit_price |-> unit_price,
                     total_cost |-> total_cost]]

\* optimize_final_buy_quantity: the entry of a quantity that is costed
CostedCandidate(qty, net_required_units, pricing_tiers, obsolescence_cost_per_unit) ==
    LET unit_price == GetPriceForQuantity(qty, pricing_tiers)
        purchase_cost == qty * unit_price
        surplus_qty == Max(0, qty - net_required_units)
        obsolescence_cost == surplus_qty * obsolescence_cost_per_unit
        total_cost == purchase_cost + obsolescence_cost
    IN  [quantity |-> qty,
         tco |-> total_cost,
         reason |-> [text |-> "Ordering", quantity |-> qty, unit_price |-> unit_price,
                     total_cost |-> total_cost]]

NoPurchase == [quantity |-> 0, tco |-> 0, reason |-> [text |-> "No purchase needed."]]

\* optimize_final_buy_quantity: the loop over the sorted candidates
RECURSIVE TcoResults(_, _, _, _, _)
TcoResults(quantities, net_required_units, min_order_qty, pricing_tiers, obsolescence_cost_per_unit) ==
    IF quantities = <<>> THEN <<>>
    ELSE LET qty == Head(quantities)
             rest == TcoResults(Tail(quantities), net_required_units, min_order_qty,
                                pricing_tiers, obsolescence_cost_per_unit)
         IN  IF qty < min_order_qty
             THEN (IF qty = 0 THEN <<NoPurchase>> \o rest ELSE rest)
             ELSE <<CostedCandidate(qty, net_required_units, pricing_tiers,
                                    obsolescence_cost_per_unit)>> \o rest

\* a variant of min() that keeps the last of several minima
OptimalChoiceLast(results) ==
    LET least == { i \in 1..Len(results) :
                    \A j \in 1..Len(results) : results[i].tco <= results[j].tco }
    IN  results[CHOOSE i \in least : \A j \in least : j <= i]

\* min(tco_results, key=tco): the first entry of minimum tco
OptimalChoice(results) ==
    LET least == { i \in 1..Len(results) :
                    \A j \in 1..Len(results) : results[i].tco <= results[j].tco }
    IN  results[SetMin(least)]

\* optimize_final_buy_quantity: its result, from the entries costed
TcoAnswer(results, net_required_units, min_order_qty) ==
    IF results = <<>>
    THEN [net_required_units |-> net_required_units,
          final_order_quantity |-> min_order_qty,
          reason |-> [text |-> "No valid pricing tiers found."]]
    ELSE [net_required_units |-> net_required_units,
          final_order_quantity |-> OptimalChoice(results).quantity,
          reason |-> OptimalChoice(results).reason]

\* Sourcing_Rules.volume_pricing_json: at most MaxTiers tiers, in any order
MaxTiers == 2

Tiers ==
    { [min_qty |-> 0, price |-> 12], [min_qty |-> 50, price |-> 10],
      [min_qty |-> 100, price |-> 8], [min_qty |-> 100, price |-> 5] }

TierLists == UNION { [1..n -> Tiers] : n \in 0..MaxTiers }

MinOrderQtys == {0, 50}

Inventories == {0, 20}

RequiredUnits == {0, 20, 100}

\* Components.standard_cost
StandardCosts == {0, 2}

\* get_component_sourcing_data: sourcing_rules, {} when there is no primary rule
SourcingRules(sourcing_result) ==
    IF Truthy(sourcing_result)
    THEN [min_order_qty |-> sourcing_result.min_order_qty,
          volume_pricing |-> sourcing_result.volume_pricing_json]
    ELSE EmptyDict

SourcingRows ==
    { [min_order_qty |-> m, volume_pricing_json |-> tiers] :
        m \in MinOrderQtys, tiers \in TierLists }

\* sourcing_rules an agent may pass on its own: with min_order_qty left out
PartialSourcingRules == { [volume_pricing |-> tiers] : tiers \in TierLists }

\* get_component_sourcing_data: its result, from the inventory sum and the two
\* rows read
ComponentSourcingData(total_inventory, sourcing_result, cost_result) ==
    [current_inventory |-> total_inventory,
     sourcing_rules |-> SourcingRules(sourcing_result),
     obsolescence_cost_per_unit |->
        IF Truthy(cost_result) THEN cost_result.standard_cost ELSE 0]

\* get_component_sourcing_data, on the rows its three queries return
GetComponentSourcingData ==
    /\ tpc = "idle"
    /\ \E total_inventory \in Inventories,
          sourcing_result \in SourcingRows \cup {NoRow},
          cost_result \in { [standard_cost |-> c] : c \in StandardCosts } \cup {NoRow} :
            tco_args' = ComponentSourcingData(total_inventory, sourcing_result, cost_result)
    /\ tpc' = "sourced"
    /\ UNCHANGED <<tco_results, tco_answer>>
    /\ UNCHANGED not_tco_vars

\* the body of optimize_final_buy_quantity
Optimize(total_required_units, current_inventory, sourcing_rules, obsolescence_cost_per_unit) ==
    LET net_required_units == Max(0, total_required_units - current_inventory)
        pricing_tiers == Get(sourcing_rules, "volume_pricing", <<>>)
        min_order_qty == Get(sourcing_rules, "min_order_qty", 0)
        quantities == SortedSeq(CandidateQuantities(net_required_units, min_order_qty,
                                                    pricing_tiers))
        results == TcoResults(quantities, net_required_units, min_order_qty, pricing_tiers,
                              obsolescence_cost_per_unit)
    IN  /\ tco_args' = [total_required_units |-> total_required_units,
                        current_inventory |-> current_inventory,
                        sourcing_rules |-> sourcing_rules,
                        obsolescence_cost_per_unit |-> obsolescence_cost_per_unit]
        /\ tco_results' = results
        /\ tco_answer' = TcoAnswer(results, net_required_units, min_order_qty)
        /\ tpc' = "returned"

\* optimize_final_buy_quantity, on the sourcing data of the previous tool
OptimizeFinalBuyQuantity ==
    /\ tpc = "sourced"
    /\ \E total_required_units \in RequiredUnits :
            Optimize(total_required_units, tco_args.current_inventory, tco_args.sourcing_rules,
                     tco_args.obsolescence_cost_per_unit)
    /\ UNCHANGED not_tco_vars

\* optimize_final_buy_quantity, on sourcing rules the agent wrote itself
OptimizeFinalBuyQuantityDirect ==
    /\ tpc = "idle"
    /\ \E total_required_units \in RequiredUnits, current_inventory \in Inventories,
          sourcing_rules \in PartialSourcingRules, obsolescence_cost_per_unit \in StandardCosts :
            Optimize(total_required_units, current_inventory, sourcing_rules,
                     obsolescence_cost_per_unit)
    /\ UNCHANGED not_tco_vars

\* the result goes back to the caller
TcoReturn ==
    /\ tpc = "returned"
    /\ tpc' = "idle"
    /\ tco_args' = EmptyDict
    /\ tco_results' = <<>>
    /\ tco_answer' = EmptyDict
    /\ UNCHANGED not_tco_vars

TcoNext ==
    \/ GetComponentSourcingData
    \/ OptimizeFinalBuyQuantity
    \/ OptimizeFinalBuyQuantityDirect
    \/ TcoReturn

(***************************************************************************)
(* Claims about optimize_final_buy_quantity                                *)
(***************************************************************************)
\* max(0, required - on_hand) of the call
ClaimNetRequired == Max(0, tco_args.total_required_units - tco_args.current_inventory)

ArgTiers == Get(tco_args.sourcing_rules, "volume_pricing", <<>>)

ArgMinOrderQty == Get(tco_args.sourcing_rules, "min_order_qty", 0)

\* the unit price an entry was costed at (the "No purchase needed." entry buys
\* nothing)
EntryUnitPrice(entry) == IF entry.reason.text = "Ordering" THEN entry.reason.unit_price ELSE 0

\* C8: every candidate q is costed as q * unit_price(q) + max(0, q - net_required)
\* * obsolescence_cost_per_unit with net_required = max(0, required - on_hand);
\* the candidate of minimum total cost is returned, and among several of
\* minimum cost the smallest quantity.
C8_MinimumCost ==
    tpc = "returned" =>
        /\ tco_answer.net_required_units = ClaimNetRequired
        /\ \A q \in {ClaimNetRequired, ArgMinOrderQty}
                        \cup { ArgTiers[i].min_qty : i \in 1..Len(ArgTiers) } :
                q >= ArgMinOrderQty => \E i \in 1..Len(tco_results) : tco_results[i].quantity = q
        /\ \A i \in 1..Len(tco_results) :
                tco_results[i].tco =
                    tco_results[i].quantity * EntryUnitPrice(tco_results[i])
                    + Max(0, tco_results[i].quantity - ClaimNetRequired)
                        * tco_args.obsolescence_cost_per_unit
        /\ \E i \in 1..Len(tco_results) :
                /\ tco_results[i].quantity = tco_answer.final_order_quantity
                /\ \A j \in 1..Len(tco_results) :
                        /\ tco_results[i].tco <= tco_results[j].tco
                        /\ tco_results[j].tco = tco_results[i].tco
                            => tco_results[i].quantity <= tco_results[j].quantity

\* C8 witness: two candidates of different quantity share the minimum total cost,
\* which is not 0, and the smaller one was returned
C8_Witness ==
    /\ tpc = "returned"
    /\ \E i, j \in 1..Len(tco_results) :
            /\ tco_results[i].quantity < tco_results[j].quantity
            /\ tco_results[i].tco = tco_results[j].tco
            /\ tco_results[i].tco > 0
            /\ \A k \in 1..Len(tco_results) : tco_results[i].tco <= tco_results[k].tco
            /\ tco_answer.final_order_quantity = tco_results[i].quantity

\* C9: quantity 0 is returned only when net_required is exactly 0: whenever
\* net_required > 0 the final_order_quantity is not 0.
C9_ZeroOnlyWhenNothingRequired ==
    (tpc = "returned" /\ ClaimNetRequired > 0) => tco_answer.final_order_quantity # 0

\* price is the price the claim gives quantity q under tiers: of the tier with
\* the largest min_qty <= q; if there is none, of the tier with the lowest
\* min_qty; 0 without tiers
ClaimUnitPrice(q, tiers, price) ==
    LET qualifying == { i \in 1..Len(tiers) : tiers[i].min_qty <= q }
    IN  IF qualifying # {}
        THEN \E i \in qualifying :
                /\ \A j \in qualifying : tiers[j].min_qty <= tiers[i].min_qty
                /\ price = tiers[i].price
        ELSE IF tiers # <<>>
        THEN \E i \in 1..Len(tiers) :
                /\ \A j \in 1..Len(tiers) : tiers[i].min_qty <= tiers[j].min_qty
                /\ price = tiers[i].price
        ELSE price = 0

\* C10: the unit price applied to a candidate is the price of the tier with the
\* largest min_qty <= the candidate; when no tier qualifies, the price of the
\* tier with the lowest min_qty, whatever the order of the tiers; 0 without tiers.
C10_UnitPrice ==
    tpc = "returned" =>
        \A i \in 1..Len(tco_results) :
            tco_results[i].reason.text = "Ordering"
                => ClaimUnitPrice(tco_results[i].quantity, ArgTiers,
                                  tco_results[i].reason.unit_price)

\* the call of the example: required 100, on hand 20, minimum order 50, tiers
\* [{50, 10}, {100, 8}], obsolescence cost 2
IsTcoExample ==
    /\ tco_args.total_required_units = 100
    /\ tco_args.current_inventory = 20
    /\ ArgMinOrderQty = 50
    /\ ArgTiers = <<[min_qty |-> 50, price |-> 10], [min_qty |-> 100, price |-> 8]>>
    /\ tco_args.obsolescence_cost_per_unit = 2

\* C11: the chosen quantity need not cover net_required: a candidate below
\* net_required that is >= min_order_qty is costed with zero surplus (its total
\* cost is its purchase cost) and is returned when its cost is the least; the
\* example returns net_required_units 80 and final_order_quantity 50, the costs
\* being 500 for 50, 800 for 80 and 840 for 100.
C11_UnderOrdering ==
    tpc = "returned" =>
        /\ \A q \in {ClaimNetRequired, ArgMinOrderQty}
                        \cup { ArgTiers[i].min_qty : i \in 1..Len(ArgTiers) } :
                (q >= ArgMinOrderQty /\ q < ClaimNetRequired) =>
                    \E i \in 1..Len(tco_results) :
                        /\ tco_results[i].quantity = q
                        /\ tco_results[i].tco = q * EntryUnitPrice(tco_results[i])
                        /\ (\A j \in 1..Len(tco_results) :
                                j # i => tco_results[i].tco < tco_results[j].tco)
                            => tco_answer.final_order_quantity = q
        /\ IsTcoExample =>
                /\ tco_answer.net_required_units = 80
                /\ tco_answer.final_order_quantity = 50
                /\ { <<tco_results[i].quantity, tco_results[i].tco>> : i \in 1..Len(tco_results) }
                        = { <<50, 500>>, <<80, 800>>, <<100, 840>> }

\* C11 witness: the example was run and a quantity below net_required returned
C11_Witness ==
    /\ tpc = "returned"
    /\ IsTcoExample
    /\ tco_answer.final_order_quantity > 0
    /\ tco_answer.final_order_quantity < tco_answer.net_required_units

\* C28: for integer inputs with min_order_qty >= 0 the final_order_quantity of
\* optimize_final_buy_quantity is one of net_required, min_order_qty and the
\* tiers' min_qty, and is 0 or at least min_order_qty; min_order_qty itself
\* is always costed, so the "No valid pricing tiers found" result is never
\* returned
C28_FinalQuantityIsCandidate ==
    (tpc = "returned" /\ ArgMinOrderQty >= 0) =>
        /\ tco_answer.final_order_quantity \in
                {ClaimNetRequired, ArgMinOrderQty}
                    \cup { ArgTiers[i].min_qty : i \in 1..Len(ArgTiers) }
        /\ \/ tco_answer.final_order_quantity = 0
           \/ tco_answer.final_order_quantity >= ArgMinOrderQty
        /\ \E i \in 1..Len(tco_results) :
                /\ tco_results[i].quantity = ArgMinOrderQty
                /\ tco_results[i].reason.text = "Ordering"
        /\ tco_answer.reason.text # "No valid pricing tiers found."

\* C28 witness: 20 units are required, below the minimum order of 50, and the
\* only tier starts at 100: 20 is not costed and the minimum order is chosen
C28_Witness ==
    /\ tpc = "returned"
    /\ ClaimNetRequired = 20
    /\ ArgMinOrderQty = 50
    /\ Len(ArgTiers) = 1
    /\ ArgTiers[1].min_qty = 100
    /\ Len(tco_results) = 2
    /\ tco_answer.final_order_quantity = 50

(***************************************************************************)
(* search_alternative_suppliers and select_optimal_supplier                *)
(*                                                                         *)
(* Quotients of the scoring are kept exact, as [n, d] with d > 0; a score  *)
(* is held in ten-thousandths, the unit round(score, 4) rounds to.         *)
(***************************************************************************)
\* what a / b raises when b is 0
ZeroDivisionError == [error |-> "ZeroDivisionError"]

\* a / b
Quotient(a, b) == IF b = 0 THEN ZeroDivisionError ELSE [n |-> a, d |-> b]

\* round(): the integer nearest to num / den (num >= 0, den > 0), the even one of
\* two equally near
RoundRatio(num, den) ==
    LET low == num \div den
        rest == num % den
    IN  IF 2 * rest > den THEN low + 1
        ELSE IF 2 * rest < den THEN low
        ELSE IF low % 2 = 0 THEN low ELSE low + 1

\* at most MaxOptions alternative suppliers are found for a component
MaxOptions == 2

\* Partners.quality_score
QualityScores == {0, 50, 100}

\* Sourcing_Rules.lead_time_days
LeadTimes == {0, 9999, 10000}

\* Sourcing_Rules.unit_price
UnitPrices == {0, 5, 7}

\* the units the component is short of
ShortageQuantities == {0, 40}

\* the rows of Sourcing_Rules joined with Partners
SupplierRows ==
    [quality_score : QualityScores, lead_time_days : LeadTimes, unit_price : UnitPrices]

\* search_alternative_suppliers: one option per row, in the order of the rows;
\* the partner of row i is supplier i
MitigationOptions(rows) ==
    [i \in 1..Len(rows) |->
        [type |-> "ALTERNATIVE_SUPPLIER",
         component_id |-> "COMP",
         supplier_id |-> i,
         supplier_name |-> i,
         lead_time_days |-> rows[i].lead_time_days,
         unit_price |-> rows[i].unit_price,
         quality_score |-> rows[i].quality_score]]

\* max() over a non-empty sequence of numbers
SeqMax(values) ==
    CHOOSE m \in { values[i] : i \in 1..Len(values) } : \A i \in 1..Len(values) : values[i] <= m

\* a variant that divides by the maximum lead time whatever it is
NormLeadTimeUnguarded(option, max_lead_time) ==
    LET ratio == Quotient(option.lead_time_days, max_lead_time)
    IN  IF ratio = ZeroDivisionError THEN ZeroDivisionError
        ELSE [n |-> ratio.d - ratio.n, d |-> ratio.d]

\* select_optimal_supplier: norm_lead_time
NormLeadTime(option, max_lead_time) ==
    IF max_lead_time > 0
    THEN LET ratio == Quotient(option.lead_time_days, max_lead_time)
         IN  IF ratio = ZeroDivisionError THEN ZeroDivisionError
             ELSE [n |-> ratio.d - ratio.n, d |-> ratio.d]
    ELSE [n |-> 0, d |-> 1]

\* select_optimal_supplier: norm_cost
NormCost(option, max_unit_price) ==
    IF max_unit_price > 0
    THEN LET ratio == Quotient(option.unit_price, max_unit_price)
         IN  IF ratio = ZeroDivisionError THEN ZeroDivisionError
             ELSE [n |-> ratio.d - ratio.n, d |-> ratio.d]
    ELSE [n |-> 0, d |-> 1]

\* a variant that takes the quality score as it is, not as a share of 100
SupplierScoreQualityAsIs(option, max_lead_time, max_unit_price) ==
    LET norm_lead_time == NormLeadTime(option, max_lead_time)
        norm_cost == NormCost(option, max_unit_price)
    IN  [value |-> RoundRatio(6000 * option.quality_score * norm_lead_time.d * norm_cost.d
                                    + 2500 * norm_lead_time.n * norm_cost.d
                                    + 1500 * norm_cost.n * norm_lead_time.d,
                                  norm_lead_time.d * norm_cost.d)]

\* select_optimal_supplier: round(score, 4) of an option, in ten-thousandths:
\* 10000 * score = 60 * quality_score + 2500 * norm_lead_time + 1500 * norm_cost;
\* [value |-> the rounded score], or the error a division raised
SupplierScore(option, max_lead_time, max_unit_price) ==
    LET norm_lead_time == NormLeadTime(option, max_lead_time)
        norm_cost == NormCost(option, max_unit_price)
    IN  IF norm_lead_time = ZeroDivisionError \/ norm_cost = ZeroDivisionError
        THEN ZeroDivisionError
        ELSE [value |-> RoundRatio(60 * option.quality_score * norm_lead_time.d * norm_cost.d
                                        + 2500 * norm_lead_time.n * norm_cost.d
                                        + 1500 * norm_cost.n * norm_lead_time.d,
                                   norm_lead_time.d * norm_cost.d)]

\* select_optimal_supplier: the score of every option, in the order of the list
OptionScores(mitigation_options) ==
    LET max_lead_time == SeqMax([i \in 1..Len(mitigation_options) |->
                                    mitigation_options[i].lead_time_days])
        max_unit_price == SeqMax([i \in 1..Len(mitigation_options) |->
                                    mitigation_options[i].unit_price])
    IN  [i \in 1..Len(mitigation_options) |->
            SupplierScore(mitigation_options[i], max_lead_time, max_unit_price)]

\* select_optimal_supplier: scored_options, each option with its score
ScoredOptions(mitigation_options, scores) ==
    [i \in 1..Len(mitigation_options) |->
        [option |-> mitigation_options[i], score |-> scores[i].value]]

\* a variant of max() that keeps the last of several maxima
BestOptionLast(scored) ==
    LET best == { i \in 1..Len(scored) : \A j \in 1..Len(scored) : scored[j].score <= scored[i].score }
    IN  scored[CHOOSE i \in best : \A j \in best : j <= i]

\* max(scored_options, key=score): the first option of maximum score
BestOption(scored) ==
    LET best == { i \in 1..Len(scored) : \A j \in 1..Len(scored) : scored[j].score <= scored[i].score }
    IN  scored[CHOOSE i \in best : \A j \in best : i <= j]

\* a variant that answers an empty option list like a selection, without a
\* supplier
SupplyUnavailableAsSelection ==
    [selected_solution |-> [type |-> "ALTERNATIVE_SUPPLIER", quantity_to_order |-> 0],
     rationale |-> EmptyDict]

\* select_optimal_supplier: what it returns without options
SupplyUnavailable ==
    [selected_solution |->
        [type |-> "SUPPLY_UNAVAILABLE",
         reason |-> "No alternative suppliers were found for the component."],
     rationale |-> [text |-> "No sourcing options available in the Sourcing_Rules table."]]

\* select_optimal_supplier: what it returns for the best of the scored options
SupplierSelection(scored, shortage_quantity) ==
    LET best_option == BestOption(scored)
    IN  [selected_solution |->
            [type |-> "ALTERNATIVE_SUPPLIER",
             component_id |-> best_option.option.component_id,
             supplier_id |-> best_option.option.supplier_id,
             supplier_name |-> best_option.option.supplier_name,
             quantity_to_order |-> shortage_quantity,
             score |-> best_option.score],
         rationale |->
            [text |-> "Selected supplier",
             supplier_id |-> best_option.option.supplier_id,
             score |-> best_option.score,
             quality_score |-> best_option.option.quality_score,
             lead_time_days |-> best_option.option.lead_time_days,
             unit_price |-> best_option.option.unit_price]]

NoSelection == [selected_solution |-> EmptyDict]

SupplierInit ==
    /\ supc = "idle"
    /\ supplier_args = EmptyDict
    /\ scored_options = <<>>
    /\ supplier_result = NoSelection

\* search_alternative_suppliers, on the rows its query returns
SearchAlternativeSuppliers ==
    /\ supc = "idle"
    /\ \E rows \in UNION { [1..n -> SupplierRows] : n \in 0..MaxOptions } :
            supplier_args' = [mitigation_options |-> MitigationOptions(rows)]
    /\ supc' = "searched"
    /\ UNCHANGED <<scored_options, supplier_result>>
    /\ UNCHANGED not_supplier_vars

\* select_optimal_supplier, on the options of the previous tool
SelectOptimalSupplier ==
    /\ supc = "searched"
    /\ \E shortage_quantity \in ShortageQuantities :
        LET mitigation_options == supplier_args.mitigation_options
            scores == OptionScores(mitigation_options)
            scored == ScoredOptions(mitigation_options, scores)
        IN  IF mitigation_options = <<>>
            THEN /\ supplier_args' = [mitigation_options |-> mitigation_options,
                                      shortage_quantity |-> shortage_quantity]
                 /\ scored_options' = <<>>
                 /\ supplier_result' = SupplyUnavailable
                 /\ supc' = "selected"
            ELSE IF \E i \in 1..Len(scores) : scores[i] = ZeroDivisionError
            THEN /\ supplier_args' = [mitigation_options |-> mitigation_options,
                                      shortage_quantity |-> shortage_quantity]
                 /\ scored_options' = <<>>
                 /\ supplier_result' = ZeroDivisionError
                 /\ supc' = "raised"
            ELSE /\ supplier_args' =
                        [mitigation_options |->
                            ItemsAfterLoop(mitigation_options, "score",
                                           [i \in 1..Len(scores) |-> scores[i].value]),
                         shortage_quantity |-> shortage_quantity]
                 /\ scored_options' = scored
                 /\ supplier_result' = SupplierSelection(scored, shortage_quantity)
                 /\ supc' = "selected"
    /\ UNCHANGED not_supplier_vars

\* the result goes back to the caller
SupplierReturn ==
    /\ supc \in {"selected", "raised"}
    /\ supc' = "idle"
    /\ supplier_args' = EmptyDict
    /\ scored_options' = <<>>
    /\ supplier_result' = NoSelection
    /\ UNCHANGED not_supplier_vars

SupplierNext ==
    \/ SearchAlternativeSuppliers
    \/ SelectOptimalSupplier
    \/ SupplierReturn

(***************************************************************************)
(* Claims about select_optimal_supplier                                    *)
(***************************************************************************)
\* C12: with an empty option list the result's selected_solution.type is
\* "SUPPLY_UNAVAILABLE" and it carries a rationale, for every shortage_quantity;
\* the call never raises.
C12_SupplyUnavailable ==
    (supc \in {"selected", "raised"} /\ supplier_args.mitigation_options = <<>>) =>
        /\ supc = "selected"
        /\ supplier_result.selected_solution.type = "SUPPLY_UNAVAILABLE"
        /\ "rationale" \in DOMAIN supplier_result
        /\ supplier_result.rationale # EmptyDict

\* C12 witness: an empty option list was answered for a shortage that is not 0
C12_Witness ==
    /\ supc = "selected"
    /\ supplier_args.mitigation_options = <<>>
    /\ supplier_args.shortage_quantity > 0
    /\ supplier_result.selected_solution.type = "SUPPLY_UNAVAILABLE"

\* the maximum of field over the options of the call
ClaimMax(field) ==
    CHOOSE m \in { supplier_args.mitigation_options[i][field] :
                        i \in 1..Len(supplier_args.mitigation_options) } :
        \A i \in 1..Len(supplier_args.mitigation_options) :
            supplier_args.mitigation_options[i][field] <= m

\* score, in ten-thousandths, is the claim's score of option rounded to 4
\* decimals: it is within half a ten-thousandth of
\* 0.60 * (quality_score / 100) + 0.25 * (1 - lead_time / max_lead_time)
\* + 0.15 * (1 - unit_price / max_unit_price), a term whose maximum is 0 being 0.
\* With L and P the two maxima (1 if the maximum is 0) the exact score times
\* 10000 * L * P is exact_scaled.
ClaimScore(option, score) ==
    LET max_lead == ClaimMax("lead_time_days")
        max_price == ClaimMax("unit_price")
        L == IF max_lead = 0 THEN 1 ELSE max_lead
        P == IF max_price = 0 THEN 1 ELSE max_price
        lead_term == IF max_lead = 0 THEN 0 ELSE 2500 * (max_lead - option.lead_time_days) * P
        cost_term == IF max_price = 0 THEN 0 ELSE 1500 * (max_price - option.unit_price) * L
        exact_scaled == 60 * option.quality_score * L * P + lead_term + cost_term
    IN  /\ 2 * score * L * P <= 2 * exact_scaled + L * P
        /\ 2 * score * L * P >= 2 * exact_scaled - L * P

\* C13: for a non-empty option list every option is scored as 0.60 *
\* (quality_score / 100) + 0.25 * (1 - lead_time / max_lead_time) + 0.15 *
\* (1 - unit_price / max_unit_price), a normalized term being 0 when its maximum
\* is 0, rounded to 4 decimals; the option of maximum rounded score is selected,
\* and of several with the maximum score the earliest in the list.
C13_WeightedScore ==
    (supc \in {"selected", "raised"} /\ supplier_args.mitigation_options # <<>>) =>
        /\ supc = "selected"
        /\ Len(scored_options) = Len(supplier_args.mitigation_options)
        /\ \A i \in 1..Len(scored_options) :
                /\ scored_options[i].option = supplier_args.mitigation_options[i]
                /\ ClaimScore(scored_options[i].option, scored_options[i].score)
        /\ \E i \in 1..Len(scored_options) :
                /\ supplier_result.selected_solution.supplier_id
                        = scored_options[i].option.supplier_id
                /\ supplier_result.selected_solution.score = scored_options[i].score
                /\ \A j \in 1..Len(scored_options) :
                        /\ scored_options[j].score <= scored_options[i].score
                        /\ j < i => scored_options[j].score < scored_options[i].score

\* C13 witness: two options differ before rounding and share the maximum rounded
\* score, and the earlier one, whose exact score is the lower, was selected
C13_Witness ==
    /\ supc = "selected"
    /\ Len(scored_options) = 2
    /\ scored_options[1].score = scored_options[2].score
    /\ scored_options[1].option.quality_score = scored_options[2].option.quality_score
    /\ scored_options[1].option.unit_price = scored_options[2].option.unit_price
    /\ scored_options[1].option.lead_time_days > scored_options[2].option.lead_time_days
    /\ supplier_result.selected_solution.supplier_id = 1

\* C14: for a non-empty option list with quality scores in 0..100 and
\* non-negative lead times and unit prices, the score of every scored option,
\* and so the score reported for the selected supplier, lies in [0, 1].
C14_ScoreInUnitInterval ==
    (/\ supc \in {"selected", "raised"}
     /\ supplier_args.mitigation_options # <<>>
     /\ \A i \in 1..Len(supplier_args.mitigation_options) :
            /\ supplier_args.mitigation_options[i].quality_score \in 0..100
            /\ supplier_args.mitigation_options[i].lead_time_days >= 0
            /\ supplier_args.mitigation_options[i].unit_price >= 0) =>
        /\ supc = "selected"
        /\ \A i \in 1..Len(scored_options) :
                scored_options[i].score >= 0 /\ scored_options[i].score <= 10000
        /\ supplier_result.selected_solution.score >= 0
        /\ supplier_result.selected_solution.score <= 10000

\* C14 witness: the selected supplier has the score 1, and another option the
\* score 0
C14_Witness ==
    /\ supc = "selected"
    /\ scored_options # <<>>
    /\ supplier_result.selected_solution.score = 10000
    /\ \E i \in 1..Len(scored_options) : scored_options[i].score = 0

(***************************************************************************)
(* The trim-mix tools: aggregate_trim_performance,                         *)
(* identify_efficiency_outliers, calculate_optimal_shift,                  *)
(* simulate_financial_impact and generate_mix_recommendation               *)
(*                                                                         *)
(* An efficiency ratio is kept exact, as [n, d] with d > 0.                *)
(***************************************************************************)
\* at most MaxTrims trims of a base model
MaxTrims == 2

\* Products.standard_product_cost
ProductCosts == {0, 10}

\* AVG(Sales_History.selling_price_per_unit), 0 without sales
AveragePrices == {0, 10, 30}

\* Products.standard_production_time_hours of the trims of a base model
ProductionTimes == {1, 2}

\* the rows of aggregate_trim_performance's query
TrimRows ==
    [standard_product_cost : ProductCosts, average_price : AveragePrices,
     standard_production_time_hours : ProductionTimes]

\* aggregate_trim_performance: one record per row, ordered by product_id; the
\* product of row i is product i, its unit_margin the average price less the cost
TrimPerformanceData(rows) ==
    [i \in 1..Len(rows) |->
        [product_id |-> i,
         standard_product_cost |-> rows[i].standard_product_cost,
         standard_production_time_hours |-> rows[i].standard_production_time_hours,
         unit_margin |-> rows[i].average_price - rows[i].standard_product_cost]]

\* trims an agent may pass on its own: the cost negative, or left out
PartialTrims ==
    [unit_margin : {-5, 0, 5}, standard_product_cost : {-10},
     standard_production_time_hours : {1}]
        \cup [unit_margin : {-5, 0, 5}, standard_production_time_hours : {1}]

\* the trims of an agent, numbered in the order of the list
PartialTrimData(trims) ==
    [i \in 1..Len(trims) |-> [k \in DOMAIN trims[i] \cup {"product_id"} |->
                                IF k = "product_id" THEN i ELSE trims[i][k]]]

\* a variant that takes the margin itself for the ratio of a trim without cost
EfficiencyRatioOfMargin(trim) ==
    LET cost == Get(trim, "standard_product_cost", 0)
        margin == Get(trim, "unit_margin", 0)
    IN  IF cost > 0 THEN Quotient(margin, cost) ELSE [n |-> margin, d |-> 1]

\* identify_efficiency_outliers: efficiency_ratio of a trim
EfficiencyRatio(trim) ==
    LET cost == Get(trim, "standard_product_cost", 0)
        margin == Get(trim, "unit_margin", 0)
    IN  IF cost > 0 THEN Quotient(margin, cost) ELSE [n |-> 0, d |-> 1]

\* a < b on ratios
RatioLt(a, b) == a.n * b.d < b.n * a.d

\* identify_efficiency_outliers: scored_trims
ScoredTrims(data) ==
    [i \in 1..Len(data) |-> [trim |-> data[i], efficiency_ratio |-> EfficiencyRatio(data[i])]]

\* max(scored_trims, key=efficiency_ratio): the first trim of maximum ratio
MostEfficient(scored) ==
    scored[CHOOSE i \in 1..Len(scored) :
            /\ \A j \in 1..Len(scored) :
                    ~RatioLt(scored[i].efficiency_ratio, scored[j].efficiency_ratio)
            /\ \A j \in 1..(i - 1) :
                    RatioLt(scored[j].efficiency_ratio, scored[i].efficiency_ratio)]

\* a variant of min() that keeps the last of several minima
LeastEfficientLast(scored) ==
    scored[CHOOSE i \in 1..Len(scored) :
            /\ \A j \in 1..Len(scored) :
                    ~RatioLt(scored[j].efficiency_ratio, scored[i].efficiency_ratio)
            /\ \A j \in (i + 1)..Len(scored) :
                    RatioLt(scored[i].efficiency_ratio, scored[j].efficiency_ratio)]

\* min(scored_trims, key=efficiency_ratio): the first trim of minimum ratio
LeastEfficient(scored) ==
    scored[CHOOSE i \in 1..Len(scored) :
            /\ \A j \in 1..Len(scored) :
                    ~RatioLt(scored[j].efficiency_ratio, scored[i].efficiency_ratio)
            /\ \A j \in 1..(i - 1) :
                    RatioLt(scored[i].efficiency_ratio, scored[j].efficiency_ratio)]

\* identify_efficiency_outliers: format_output
FormatOutput(trim_data) ==
    [product_id |-> trim_data.product_id,
     production_time |-> trim_data.standard_production_time_hours,
     unit_margin |-> trim_data.unit_margin]

\* a variant that answers an empty list with an empty pair
OutliersOfEmptyAsNone(data) ==
    IF data = <<>>
    THEN [least_efficient_trim |-> EmptyDict, most_efficient_trim |-> EmptyDict]
    ELSE [least_efficient_trim |-> FormatOutput(LeastEfficient(ScoredTrims(data)).trim),
          most_efficient_trim |-> FormatOutput(MostEfficient(ScoredTrims(data)).trim)]

\* identify_efficiency_outliers: its result, or the error it raises
Outliers(data) ==
    IF data = <<>>
    THEN [error |-> "ValueError", message |-> "Input 'trim_performance_data' cannot be empty."]
    ELSE IF \E i \in 1..Len(data) : EfficiencyRatio(data[i]) = ZeroDivisionError
    THEN ZeroDivisionError
    ELSE [least_efficient_trim |-> FormatOutput(LeastEfficient(ScoredTrims(data)).trim),
          most_efficient_trim |-> FormatOutput(MostEfficient(ScoredTrims(data)).trim)]

\* the sums calculate_optimal_shift reads for the more efficient trim
MixForecastSums == {0, 5}

MixCapacitySums == {Dec(0, 0), Dec(7, 0)}

\* calculate_optimal_shift, on the pair of identify_efficiency_outliers
ShiftOfOutliers(pair, total_forecast, total_available) ==
    LET shift == OptimalShift(total_forecast, total_available,
                              pair.most_efficient_trim.production_time,
                              pair.least_efficient_trim.production_time)
    IN  [reduce_target |-> [product_id |-> pair.least_efficient_trim.product_id,
                            quantity |-> shift.reduce_target.quantity],
         reallocate_to |-> [product_id |-> pair.most_efficient_trim.product_id,
                            quantity |-> shift.reallocate_to.quantity],
         binding_constraint |-> shift.binding_constraint]

\* simulate_financial_impact: margin_map.get(product_id, 0); of several trims
\* of one product_id the last one counts
MarginOf(data, product_id) ==
    LET rows == { i \in 1..Len(data) : data[i].product_id = product_id }
    IN  IF rows = {} THEN 0
        ELSE data[CHOOSE i \in rows : \A j \in rows : j <= i].unit_margin

\* simulate_financial_impact: simulation_result; margin_changes holds the two
\* margin_change_from_<product_id> entries, by product_id, the reallocation's
\* replacing the reduction's when both are of one product
SimulationResult(parameters, data) ==
    LET reduce_id == parameters.reduce_target.product_id
        reduce_qty == parameters.reduce_target.quantity
        reallocate_id == parameters.reallocate_to.product_id
        reallocate_qty == parameters.reallocate_to.quantity
        margin_change_from_reduction == reduce_qty * MarginOf(data, reduce_id)
        margin_change_from_reallocation == reallocate_qty * MarginOf(data, reallocate_id)
        net_margin_impact == margin_change_from_reallocation + margin_change_from_reduction
    IN  [margin_changes |->
            [id \in {reduce_id, reallocate_id} |->
                IF id = reallocate_id THEN margin_change_from_reallocation
                ELSE margin_change_from_reduction],
         net_margin_impact |-> net_margin_impact]

\* a variant that reports a gain only: a loss is shown as 0
ProjectedNetMarginGainFloored(result) ==
    IF Get(result, "net_margin_impact", 0) < 0 THEN 0 ELSE Get(result, "net_margin_impact", 0)

\* generate_mix_recommendation: details.projected_net_margin_gain
ProjectedNetMarginGain(result) == Get(result, "net_margin_impact", 0)

\* generate_mix_recommendation: final_answer
MixFinalAnswer(result, parameters) ==
    LET reduce_target == Get(parameters, "reduce_target", EmptyDict)
        reallocate_to == Get(parameters, "reallocate_to", EmptyDict)
        binding_constraint == Get(parameters, "binding_constraint", "N/A")
    IN  [recommendation |->
            <<[action_type |-> "REDUCE_TARGET",
               product_id |-> Get(reduce_target, "product_id", "None"),
               quantity |-> Get(reduce_target, "quantity", "None")],
              [action_type |-> "INCREASE_TARGET",
               product_id |-> Get(reallocate_to, "product_id", "None"),
               quantity |-> Get(reallocate_to, "quantity", "None")]>>,
         justification |->
            [binding_constraint |-> binding_constraint,
             from |-> Get(reduce_target, "product_id", "None"),
             to |-> Get(reallocate_to, "product_id", "None")],
         details |-> [projected_net_margin_gain |-> ProjectedNetMarginGain(result)]]

DigitValue == [c \in DigitChars |-> CHOOSE n \in 0..9 : ToString(n) = c]

\* int() of a string of digits
RECURSIVE IntOf(_)
IntOf(str) ==
    IF str = <<>> THEN 0 ELSE 10 * IntOf(SubSeq(str, 1, Len(str) - 1)) + DigitValue[str[Len(str)]]

\* relativedelta(years, months, days); weeks are 7 days each
RelativeDelta(years, months, days) == [years |-> years, months |-> months, days |-> days]

\* aggregate_trim_performance: today - start_date, the length of the window the
\* sales are averaged over; a year unless the period says otherwise
Window(period) ==
    LET parts == Split(period)
    IN  IF Len(parts) = 2 /\ IsDigit(parts[1])
        THEN LET value == IntOf(parts[1])
                 unit == Lower(parts[2])
             IN  IF Contains(Quarter, unit) THEN RelativeDelta(0, 3 * value, 0)
                 ELSE IF Contains(Year, unit) THEN RelativeDelta(value, 0, 0)
                 ELSE IF Contains(Month, unit) THEN RelativeDelta(0, value, 0)
                 ELSE IF Contains(Week, unit) THEN RelativeDelta(0, 0, 7 * value)
                 ELSE IF Contains(Day, unit) THEN RelativeDelta(0, 0, value)
                 ELSE RelativeDelta(1, 0, 0)
        ELSE RelativeDelta(1, 0, 0)

\* period arguments of aggregate_trim_performance
TrimPeriods ==
    { <<"1", " ", "q", "u", "a", "r", "t", "e", "r">>,
      <<"2", " ", "w", "e", "e", "k", "s">>,
      <<"3", "0", " ", "D", "a", "y", "s">>,
      <<"1", " ", "h", "o", "u", "r">>,
      <<"o", "n", "e", " ", "m", "o", "n", "t", "h">> }

\* aggregate_trim_performance, on the rows its query returns
AggregateTrimPerformance ==
    /\ mpc = "idle"
    /\ \E period \in TrimPeriods :
            performance_args' = [period |-> period, window |-> Window(period)]
    /\ \E rows \in UNION { [1..n -> TrimRows] : n \in 0..MaxTrims } :
            trim_performance_data' = TrimPerformanceData(rows)
    /\ mpc' = "aggregated"
    /\ UNCHANGED <<scored_trims, outliers, optimal_simulation_parameters, simulation_result,
                   mix_answer>>
    /\ UNCHANGED not_mix_vars

\* the body of identify_efficiency_outliers
Identify(data) ==
    /\ outliers' = Outliers(data)
    /\ IF "error" \in DOMAIN Outliers(data)
       THEN /\ trim_performance_data' = data
            /\ scored_trims' = <<>>
            /\ mpc' = "raised"
       ELSE /\ trim_performance_data' =
                    ItemsAfterLoop(data, "efficiency_ratio",
                                   [i \in 1..Len(data) |-> EfficiencyRatio(data[i])])
            /\ scored_trims' = ScoredTrims(data)
            /\ mpc' = "identified"
    /\ UNCHANGED <<performance_args, optimal_simulation_parameters, simulation_result,
                   mix_answer>>

\* identify_efficiency_outliers, on the data of the previous tool
IdentifyEfficiencyOutliers ==
    /\ mpc = "aggregated"
    /\ Identify(trim_performance_data)
    /\ UNCHANGED not_mix_vars

\* identify_efficiency_outliers, on trims the agent wrote itself
IdentifyEfficiencyOutliersDirect ==
    /\ mpc = "idle"
    /\ \E trims \in UNION { [1..n -> PartialTrims] : n \in 1..MaxTrims } :
            Identify(PartialTrimData(trims))
    /\ UNCHANGED not_mix_vars

\* calculate_optimal_shift for the coming quarter, on the pair of the previous
\* tool and the two sums its queries return
CalculateOptimalShiftOfOutliers ==
    /\ mpc = "identified"
    /\ \E total_forecast \in MixForecastSums, total_available \in MixCapacitySums :
            optimal_simulation_parameters' =
                ShiftOfOutliers(outliers, total_forecast, total_available)
    /\ mpc' = "shifted"
    /\ UNCHANGED <<performance_args, trim_performance_data, scored_trims, outliers,
                   simulation_result, mix_answer>>
    /\ UNCHANGED not_mix_vars

\* simulate_financial_impact, on the results of the previous tools
SimulateFinancialImpact ==
    /\ mpc = "shifted"
    /\ simulation_result' = SimulationResult(optimal_simulation_parameters, trim_performance_data)
    /\ mpc' = "simulated"
    /\ UNCHANGED <<performance_args, trim_performance_data, scored_trims, outliers,
                   optimal_simulation_parameters, mix_answer>>
    /\ UNCHANGED not_mix_vars

\* generate_mix_recommendation, on the results of the previous tools
GenerateMixRecommendation ==
    /\ mpc = "simulated"
    /\ mix_answer' = MixFinalAnswer(simulation_result, optimal_simulation_parameters)
    /\ mpc' = "recommended"
    /\ UNCHANGED <<performance_args, trim_performance_data, scored_trims, outliers,
                   optimal_simulation_parameters, simulation_result>>
    /\ UNCHANGED not_mix_vars

\* the answer, or the error, goes back to the caller
MixReturn ==
    /\ mpc \in {"recommended", "raised"}
    /\ mpc' = "idle"
    /\ performance_args' = EmptyDict
    /\ trim_performance_data' = <<>>
    /\ scored_trims' = <<>>
    /\ outliers' = EmptyDict
    /\ optimal_simulation_parameters' = EmptyDict
    /\ simulation_result' = EmptyDict
    /\ mix_answer' = EmptyDict
    /\ UNCHANGED not_mix_vars

MixNext ==
    \/ AggregateTrimPerformance
    \/ IdentifyEfficiencyOutliers
    \/ IdentifyEfficiencyOutliersDirect
    \/ CalculateOptimalShiftOfOutliers
    \/ SimulateFinancialImpact
    \/ GenerateMixRecommendation
    \/ MixReturn

(***************************************************************************)
(* Claims about the trim-mix tools                                         *)
(***************************************************************************)
\* C15: the efficiency ratio of a trim is unit_margin / standard_product_cost
\* when the cost is > 0, and exactly 0 when the cost is <= 0 or the cost field
\* is absent, whatever the margin.
C15_EfficiencyRatio ==
    mpc \in {"identified", "shifted", "simulated", "recommended"} =>
        /\ Len(scored_trims) = Len(trim_performance_data)
        /\ \A i \in 1..Len(scored_trims) :
            LET trim == trim_performance_data[i]
                ratio == scored_trims[i].efficiency_ratio
            IN  /\ scored_trims[i].trim = trim
                /\ IF "standard_product_cost" \in DOMAIN trim /\ trim.standard_product_cost > 0
                   THEN ratio.n * trim.standard_product_cost = trim.unit_margin * ratio.d
                   ELSE ratio.n = 0

\* C15 witness: of two trims scored the first has no cost field and a margin
\* below 0, the second a cost below 0 and a margin above 0, and both have ratio 0
C15_Witness ==
    /\ mpc = "identified"
    /\ Len(scored_trims) = 2
    /\ "standard_product_cost" \notin DOMAIN trim_performance_data[1]
    /\ trim_performance_data[1].unit_margin < 0
    /\ "standard_product_cost" \in DOMAIN trim_performance_data[2]
    /\ trim_performance_data[2].standard_product_cost < 0
    /\ trim_performance_data[2].unit_margin > 0
    /\ scored_trims[1].efficiency_ratio.n = 0
    /\ scored_trims[2].efficiency_ratio.n = 0

\* the ratio the claim gives trim i of the input, as [n, d]
ClaimRatio(i) ==
    LET trim == trim_performance_data[i]
    IN  IF "standard_product_cost" \in DOMAIN trim /\ trim.standard_product_cost > 0
        THEN [n |-> trim.unit_margin, d |-> trim.standard_product_cost]
        ELSE [n |-> 0, d |-> 1]

\* C16: for a non-empty list most_efficient_trim is the record of maximum
\* efficiency ratio and least_efficient_trim the record of minimum ratio, the
\* earliest in the input of several; so for a single record, or when all ratios
\* are equal, both are the first record.
C16_Outliers ==
    (mpc \in {"identified", "raised"} /\ trim_performance_data # <<>>) =>
        /\ mpc = "identified"
        /\ \E i \in 1..Len(trim_performance_data) :
                /\ outliers.most_efficient_trim = FormatOutput(trim_performance_data[i])
                /\ \A j \in 1..Len(trim_performance_data) :
                        /\ ~RatioLt(ClaimRatio(i), ClaimRatio(j))
                        /\ j < i => RatioLt(ClaimRatio(j), ClaimRatio(i))
        /\ \E i \in 1..Len(trim_performance_data) :
                /\ outliers.least_efficient_trim = FormatOutput(trim_performance_data[i])
                /\ \A j \in 1..Len(trim_performance_data) :
                        /\ ~RatioLt(ClaimRatio(j), ClaimRatio(i))
                        /\ j < i => RatioLt(ClaimRatio(i), ClaimRatio(j))
        /\ (\A i, j \in 1..Len(trim_performance_data) :
                ~RatioLt(ClaimRatio(i), ClaimRatio(j)))
            => /\ outliers.most_efficient_trim = FormatOutput(trim_performance_data[1])
               /\ outliers.least_efficient_trim = FormatOutput(trim_performance_data[1])

\* C16 witness: two trims that differ in margin have the same ratio, and the
\* first one is both outliers
C16_Witness ==
    /\ mpc = "identified"
    /\ Len(trim_performance_data) = 2
    /\ trim_performance_data[1].unit_margin # trim_performance_data[2].unit_margin
    /\ outliers.most_efficient_trim.product_id = 1
    /\ outliers.least_efficient_trim.product_id = 1

\* C17: called with an empty list identify_efficiency_outliers fails with a
\* ValueError and returns no outlier pair.
C17_EmptyListRejected ==
    (mpc \in {"identified", "raised"} /\ trim_performance_data = <<>>) =>
        /\ mpc = "raised"
        /\ outliers.error = "ValueError"
        /\ "most_efficient_trim" \notin DOMAIN outliers
        /\ "least_efficient_trim" \notin DOMAIN outliers

\* C17 witness: the aggregation found no trim and the identification raised
C17_Witness ==
    /\ mpc = "raised"
    /\ trim_performance_data = <<>>
    /\ outliers.error = "ValueError"

\* C18: in the trim-mix pipeline final_answer.details.projected_net_margin_gain
\* of generate_mix_recommendation is exactly the net_margin_impact of
\* simulate_financial_impact for the same plan: carried through, not recomputed.
C18_MarginCarriedThrough ==
    mpc = "recommended" =>
        /\ "net_margin_impact" \in DOMAIN simulation_result
        /\ mix_answer.details.projected_net_margin_gain = simulation_result.net_margin_impact
        /\ mix_answer.recommendation[1].product_id
                = optimal_simulation_parameters.reduce_target.product_id
        /\ mix_answer.recommendation[2].product_id
                = optimal_simulation_parameters.reallocate_to.product_id

\* C18 witness: a plan that moves units between two trims and loses margin was
\* recommended
C18_Witness ==
    /\ mpc = "recommended"
    /\ simulation_result.net_margin_impact < 0
    /\ optimal_simulation_parameters.reallocate_to.quantity > 0
    /\ optimal_simulation_parameters.reduce_target.product_id
            # optimal_simulation_parameters.reallocate_to.product_id
    /\ mix_answer.details.projected_net_margin_gain = simulation_result.net_margin_impact

\* C26: in simulate_financial_impact reducing a trim never adds margin: for a
\* reduced trim of positive unit margin the entry margin_change_from_<reduced
\* id> is <= 0, and net_margin_impact is the margin gained on the reallocated
\* units minus the margin given up on the reduced units
C26_ReductionGivesUpMargin ==
    mpc \in {"simulated", "recommended"} =>
        LET reduce_target == optimal_simulation_parameters.reduce_target
            reallocate_to == optimal_simulation_parameters.reallocate_to
            reduce_margin == MarginOf(trim_performance_data, reduce_target.product_id)
            reallocate_margin == MarginOf(trim_performance_data, reallocate_to.product_id)
        IN  /\ (reduce_margin > 0 /\ reduce_target.product_id # reallocate_to.product_id) =>
                    simulation_result.margin_changes[reduce_target.product_id] <= 0
            /\ simulation_result.net_margin_impact =
                    reallocate_to.quantity * reallocate_margin
                        - reduce_target.quantity * reduce_margin

\* "<integer> <unit>" with a unit aggregate_trim_performance knows
WellFormedPeriod(period) ==
    LET parts == Split(period)
    IN  /\ Len(parts) = 2
        /\ IsDigit(parts[1])
        /\ \E unit \in {Quarter, Year, Month, Week, Day} : Contains(unit, Lower(parts[2]))

\* C22: aggregate_trim_performance given a period that does not parse as
\* "<integer> <unit>" with a known unit surfaces an error and returns no
\* performance data computed over a default window
C22_MalformedPeriodRejected ==
    mpc = "aggregated" => WellFormedPeriod(performance_args.period)

(***************************************************************************)
(* user_intent_parser                                                      *)
(*                                                                         *)
(* A schema is its name and the type of each field; a value the language   *)
(* model extracts for a field is one of MaxExtractions readings of the     *)
(* query, of the field's type.                                             *)
(***************************************************************************)
T1Output ==
    [name |-> "T1Output",
     fields |-> [product_id |-> "str", requesting_loc_id |-> "str", supplying_loc_id |-> "str"]]

T2Output ==
    [name |-> "T2Output",
     fields |-> [product_id |-> "str", requested_qty |-> "int", due_date |-> "str"]]

T3Output ==
    [name |-> "T3Output",
     fields |-> [product_id |-> "str", target_period |-> "str", upcoming_campaigns |-> "str"]]

T4Output ==
    [name |-> "T4Output",
     fields |-> [product_id |-> "str", period |-> "str", total_budget |-> "int"]]

T5Output ==
    [name |-> "T5Output", fields |-> [component_id |-> "str", shortage_quantity |-> "int"]]

T6Output ==
    [name |-> "T6Output",
     fields |-> [source_plant_id |-> "str", new_hub_id |-> "str", target_dealer_id |-> "str"]]

T7Output == [name |-> "T7Output", fields |-> [base_model |-> "str", period |-> "str"]]

T8Output ==
    [name |-> "T8Output",
     fields |-> [component_id |-> "str", supplier_id |-> "str", last_order_date |-> "str"]]

T9Output ==
    [name |-> "T9Output",
     fields |-> [target_base_model |-> "str", forecast_horizon_months |-> "int",
                 scenarios |-> "List[Scenario]"]]

task_map ==
    [t1 |-> T1Output, t2 |-> T2Output, t3 |-> T3Output, t4 |-> T4Output, t5 |-> T5Output,
     t6 |-> T6Output, t7 |-> T7Output, t8 |-> T8Output, t9 |-> T9Output]

\* what task_map.get gives for a task that is no key
NoSchema == [name |-> "None", fields |-> EmptyDict]

\* a variant that parses an unknown task like an inventory transfer
TaskMapGetOrFirst(task) == IF task \in DOMAIN task_map THEN task_map[task] ELSE T1Output

\* task_map.get(task)
TaskMapGet(task) == IF task \in DOMAIN task_map THEN task_map[task] ELSE NoSchema

\* the tasks an agent may name: the nine of task_map and some that are no key
Tasks == DOMAIN task_map \cup {"t0", "t10", "T1", "", "inventory_transfer"}

Queries == {"query 1", "query 2"}

\* the language model reads a field in one of MaxExtractions ways
MaxExtractions == 2

\* llm.with_structured_output(schema).invoke(query).model_dump(): a dict of the
\* fields of schema
StructuredOutputs(schema) ==
    [DOMAIN schema.fields -> 1..MaxExtractions]

ModelDump(schema, output) ==
    [k \in DOMAIN schema.fields |-> [type |-> schema.fields[k], extraction |-> output[k]]]

IntentInit ==
    /\ ipc = "idle"
    /\ intent_args = EmptyDict
    /\ output_schema = NoSchema
    /\ llm_invocations = <<>>
    /\ intent_result = EmptyDict

\* user_intent_parser up to the call of the language model: the schema is
\* looked up, and an unknown task raises
UserIntentParser ==
    /\ ipc = "idle"
    /\ \E task \in Tasks, query \in Queries :
            /\ intent_args' = [task |-> task, query |-> query]
            /\ output_schema' = TaskMapGet(task)
            /\ IF TaskMapGet(task) = NoSchema
               THEN /\ ipc' = "raised"
                    /\ intent_result' = [error |-> "ValueError", message |-> "Unsupported task."]
               ELSE /\ ipc' = "invoking"
                    /\ intent_result' = EmptyDict
    /\ UNCHANGED llm_invocations
    /\ UNCHANGED not_intent_vars

\* user_intent_parser from the call of the language model on: the model answers
\* with an output of the schema, which is dumped, or the call fails
InvokeLanguageModel ==
    /\ ipc = "invoking"
    /\ llm_invocations' = Append(llm_invocations, [schema |-> output_schema.name,
                                                    query |-> intent_args.query])
    /\ \/ \E output \in StructuredOutputs(output_schema) :
            /\ intent_result' = ModelDump(output_schema, output)
            /\ ipc' = "returned"
       \/ /\ intent_result' = [error |-> "Exception", message |-> "language model call failed"]
          /\ ipc' = "raised"
    /\ UNCHANGED <<intent_args, output_schema>>
    /\ UNCHANGED not_intent_vars

\* the result, or the error, goes back to the caller
IntentReturn ==
    /\ ipc \in {"returned", "raised"}
    /\ ipc' = "idle"
    /\ intent_args' = EmptyDict
    /\ output_schema' = NoSchema
    /\ llm_invocations' = <<>>
    /\ intent_result' = EmptyDict
    /\ UNCHANGED not_intent_vars

IntentNext ==
    \/ UserIntentParser
    \/ InvokeLanguageModel
    \/ IntentReturn

(***************************************************************************)
(* Claims about user_intent_parser                                         *)
(***************************************************************************)
\* the fixed set of task identifiers, each with the name of its own schema
ClaimTaskSchemas ==
    [t1 |-> "T1Output", t2 |-> "T2Output", t3 |-> "T3Output", t4 |-> "T4Output",
     t5 |-> "T5Output", t6 |-> "T6Output", t7 |-> "T7Output", t8 |-> "T8Output",
     t9 |-> "T9Output"]

\* C19: for every task identifier outside t1..t9 user_intent_parser fails with
\* a ValueError, and does so before the language model is invoked; for each of
\* t1..t9 it uses that task's own argument schema, and the model is invoked with
\* it.
C19_UnknownTaskRejected ==
    ipc \in {"invoking", "returned", "raised"} =>
        IF intent_args.task \in DOMAIN ClaimTaskSchemas
        THEN /\ output_schema.name = ClaimTaskSchemas[intent_args.task]
             /\ \A i \in 1..Len(llm_invocations) :
                    llm_invocations[i].schema = ClaimTaskSchemas[intent_args.task]
             /\ ipc = "returned" =>
                    /\ Len(llm_invocations) = 1
                    /\ DOMAIN intent_result = DOMAIN output_schema.fields
             /\ ipc = "raised" => intent_result.error # "ValueError"
        ELSE /\ ipc = "raised"
             /\ intent_result.error = "ValueError"
             /\ llm_invocations = <<>>

\* C19 witness: a task that differs from a supported one by its case only was
\* rejected, the language model not invoked
C19_Witness ==
    /\ ipc = "raised"
    /\ intent_args.task = "T1"
    /\ intent_result.error = "ValueError"
    /\ llm_invocations = <<>>

(***************************************************************************)
(* calculate_lifetime_demand                                               *)
(***************************************************************************)
\* at most MaxAffected products use the discontinued component
MaxAffected == 2

\* SUM(Demand_Forecast_Log.forecasted_qty) of a product that has forecasts
ProductForecasts == {3, 6}

\* Bill_of_Materials.quantity_per_unit
QuantitiesPerUnit == {1, 2}

\* COUNT(*) of Quality_Incidents
IncidentCounts == {0, 1, 2}

\* SUM(Sales_History.units_sold), 0 without sales
SalesSums == {0, 3, 4}

\* the affected products, numbered in the order of the list
AffectedProducts(n) ==
    [i \in 1..n |-> [product_id |-> i, end_of_service_date |-> "2030-12-31"]]

\* the rows of a query that has at most one row per product: a value for some
\* of the products
RowsByProduct(n, values) == UNION { [S -> values] : S \in SUBSET (1..n) }

\* sum(forecasts.values())
RECURSIVE SumOver(_, _)
SumOver(map, keys) ==
    IF keys = {} THEN 0
    ELSE LET k == CHOOSE x \in keys : TRUE
         IN  map[k] + SumOver(map, keys \ {k})

\* calculate_lifetime_demand: production_demand, over the listed products
RECURSIVE ProductionDemand(_, _, _)
ProductionDemand(product_ids, forecasts, bom_map) ==
    IF product_ids = <<>> THEN 0
    ELSE Get(forecasts, Head(product_ids), 0) * Get(bom_map, Head(product_ids), 0)
            + ProductionDemand(Tail(product_ids), forecasts, bom_map)

\* Decimal + int, for a >= 0 and d >= 0, rounded to the context's precision
DecAddInt(a, d) ==
    LET m == a.n + d * Pow10(a.s)
        k == NumDigits(m) - DecimalPrec
    IN  IF k <= 0 THEN Dec(m, a.s) ELSE Dec(RoundHalfEven(m, Pow10(k)), a.s - k)

\* Decimal(a) / Decimal(b)
DecimalQuotient(a, b) == IF b = 0 THEN ZeroDivisionError ELSE DecDivInt(Dec(a, 0), b)

\* calculate_lifetime_demand: service_demand, a Decimal, or the int 0 (as a
\* Decimal of no places) without sales
ServiceDemand(total_incidents, total_sales, total_future_forecast) ==
    IF total_sales > 0
    THEN LET failure_rate == DecimalQuotient(total_incidents, total_sales)
         IN  IF failure_rate = ZeroDivisionError THEN ZeroDivisionError
             ELSE DecMulInt(failure_rate, total_future_forecast)
    ELSE Dec(0, 0)

\* calculate_lifetime_demand: what it returns without affected products
NoLifetimeDemand ==
    [total_lifetime_demand |->
        [production_demand |-> 0, service_demand |-> 0, total_required_units |-> 0]]

\* calculate_lifetime_demand: its result, or the error a division raised
LifetimeDemand(affected_products, forecasts, bom_map, total_incidents, total_sales) ==
    IF affected_products = <<>> THEN NoLifetimeDemand
    ELSE LET product_ids == [i \in 1..Len(affected_products) |-> affected_products[i].product_id]
             total_future_forecast == SumOver(forecasts, DOMAIN forecasts)
             production_demand == ProductionDemand(product_ids, forecasts, bom_map)
             service_demand == ServiceDemand(total_incidents, total_sales, total_future_forecast)
         IN  IF service_demand = ZeroDivisionError THEN ZeroDivisionError
             ELSE [total_lifetime_demand |->
                    [production_demand |-> production_demand,
                     service_demand |-> DecToInt(service_demand),
                     total_required_units |->
                        IF total_sales > 0
                        THEN DecToInt(DecAddInt(service_demand, production_demand))
                        ELSE production_demand]]

LifetimeInit ==
    /\ lpc = "idle"
    /\ lifetime_args = EmptyDict
    /\ lifetime_result = EmptyDict

\* calculate_lifetime_demand, on its arguments and the rows its four queries
\* return
CalculateLifetimeDemand ==
    /\ lpc = "idle"
    /\ \E n \in 0..MaxAffected :
       \E forecasts \in RowsByProduct(n, ProductForecasts),
          bom_map \in RowsByProduct(n, QuantitiesPerUnit),
          total_incidents \in IncidentCounts, total_sales \in SalesSums :
            LET result == LifetimeDemand(AffectedProducts(n), forecasts, bom_map,
                                         total_incidents, total_sales)
            IN  /\ lifetime_args' =
                        IF n = 0 THEN [affected_products |-> <<>>]
                        ELSE [affected_products |-> AffectedProducts(n),
                              forecasts |-> forecasts,
                              bom_map |-> bom_map,
                              total_incidents |-> total_incidents,
                              total_sales |-> total_sales]
                /\ lifetime_result' = result
                /\ lpc' = IF result = ZeroDivisionError THEN "raised" ELSE "returned"
    /\ UNCHANGED not_lifetime_vars

\* the result, or the error, goes back to the caller
LifetimeReturn ==
    /\ lpc \in {"returned", "raised"}
    /\ lpc' = "idle"
    /\ lifetime_args' = EmptyDict
    /\ lifetime_result' = EmptyDict
    /\ UNCHANGED not_lifetime_vars

LifetimeNext == CalculateLifetimeDemand \/ LifetimeReturn

(***************************************************************************)
(* Claims about calculate_lifetime_demand                                  *)
(***************************************************************************)
\* C25: in every result of calculate_lifetime_demand the integers reported
\* satisfy total_required_units = production_demand + service_demand, and an
\* empty affected_products list yields 0 for all three
C25_TotalIsSum ==
    lpc = "returned" =>
        LET demand == lifetime_result.total_lifetime_demand
        IN  /\ demand.total_required_units = demand.production_demand + demand.service_demand
            /\ lifetime_args.affected_products = <<>> =>
                    /\ demand.production_demand = 0
                    /\ demand.service_demand = 0
                    /\ demand.total_required_units = 0

(***************************************************************************)
(* The tools with a division, called one at a time                         *)
(***************************************************************************)
\* the agent waits for the answer of one tool before it calls the next
ToolsNext ==
    \/ supc = "idle" /\ mpc = "idle" /\ lpc = "idle" /\ ShiftNext
    \/ spc = "idle" /\ mpc = "idle" /\ lpc = "idle" /\ SupplierNext
    \/ spc = "idle" /\ supc = "idle" /\ lpc = "idle" /\ MixNext
    \/ spc = "idle" /\ supc = "idle" /\ mpc = "idle" /\ LifetimeNext

\* C20: no division by zero ever raises; a zero or non-positive divisor yields
\* the sentinel 0: in calculate_optimal_shift for a unit time <= 0, in
\* select_optimal_supplier for a maximum lead time or maximum price of 0, in
\* identify_efficiency_outliers for a cost <= 0, and in
\* calculate_lifetime_demand for total sales of 0 (service_demand 0).
C20_NoDivisionByZero ==
    /\ spc = "raised" => shift_result.error = "ValueError"
    /\ spc = "returned" =>
        /\ shift_args.most_efficient_time <= 0 =>
                /\ shift_result.reallocate_to.quantity = 0
                /\ shift_result.reduce_target.quantity = 0
        /\ shift_args.least_efficient_time <= 0 => shift_result.reduce_target.quantity = 0
    /\ supc # "raised"
    /\ (supc = "selected" /\ supplier_args.mitigation_options # <<>>) =>
        \A i \in 1..Len(scored_options) :
            LET option == scored_options[i].option
                max_lead == ClaimMax("lead_time_days")
                max_price == ClaimMax("unit_price")
            IN  /\ (max_lead = 0 /\ max_price = 0)
                        => scored_options[i].score = 60 * option.quality_score
                /\ (max_lead = 0 /\ max_price > 0)
                        => scored_options[i].score
                            = RoundRatio(60 * option.quality_score * max_price
                                            + 1500 * (max_price - option.unit_price),
                                         max_price)
                /\ (max_lead > 0 /\ max_price = 0)
                        => scored_options[i].score
                            = RoundRatio(60 * option.quality_score * max_lead
                                            + 2500 * (max_lead - option.lead_time_days),
                                         max_lead)
    /\ mpc = "raised" => outliers.error = "ValueError"
    /\ mpc \in {"identified", "shifted", "simulated", "recommended"} =>
        \A i \in 1..Len(scored_trims) :
            Get(trim_performance_data[i], "standard_product_cost", 0) <= 0
                => scored_trims[i].efficiency_ratio = [n |-> 0, d |-> 1]
    /\ lpc # "raised"
    /\ (lpc = "returned" /\ lifetime_args.affected_products # <<>>
            /\ lifetime_args.total_sales = 0)
        => lifetime_result.total_lifetime_demand.service_demand = 0

\* C20 witness: every option found has lead time 0 and price 0, and the supplier
\* selected has the score of its quality alone
C20_Witness ==
    /\ supc = "selected"
    /\ Len(scored_options) = MaxOptions
    /\ \A i \in 1..Len(scored_options) :
            /\ scored_options[i].option.lead_time_days = 0
            /\ scored_options[i].option.unit_price = 0
    /\ supplier_result.selected_solution.score = 60 * 50

(***************************************************************************)
(* The tools that read a SUM: evaluate_production_capacity,                *)
(* read_marketing_campaigns, calculate_optimal_shift and                   *)
(* get_component_sourcing_data                                             *)
(*                                                                         *)
(* A column value is Num(n) or None (SQL NULL); NUMERIC(5,2) columns are   *)
(* kept in hundredths.  A table is the sequence of the values of the       *)
(* summed column in the rows the WHERE clause selects.                     *)
(***************************************************************************)
IsNull(value) == value.kind = "none"

\* the values of a column that are not NULL
NonNull(column) == { i \in 1..Len(column) : ~IsNull(column[i]) }

RECURSIVE SumOfValues(_, _)
SumOfValues(column, rows) ==
    IF rows = {} THEN 0
    ELSE LET i == CHOOSE i \in rows : TRUE
         IN  column[i].v + SumOfValues(column, rows \ {i})

\* SUM(column): NULL over no row and over NULLs only, the sum of the values that
\* are not NULL otherwise
SqlSum(column) ==
    IF NonNull(column) = {} THEN None ELSE Num(SumOfValues(column, NonNull(column)))

\* COALESCE(value, default)
Coalesce(value, default) == IF IsNull(value) THEN default ELSE value

\* a * b of SQL: NULL when a or b is
SqlTimes(a, b) == IF IsNull(a) \/ IsNull(b) THEN None ELSE Num(a.v * b.v)

\* a >= b of SQL, as psycopg2 hands it over: None when a or b is NULL
SqlGe(a, b) == IF IsNull(a) \/ IsNull(b) THEN None ELSE [kind |-> "bool", v |-> a.v >= b.v]

\* at most MaxRows rows are selected from a table
MaxRows == 2

\* Production_Capacity.available_hours, in hundredths
AvailableHours == {None, Num(0), Num(800), Num(750)}

\* Demand_Forecast_Log.forecasted_qty
ForecastedQtys == {None, Num(0), Num(3)}

\* Marketing_Campaigns.predicted_uplift_pct, in hundredths
PredictedUpliftPcts == {None, Num(0), Num(1000), Num(250)}

\* Inventory_History.quantity_on_hand
QuantitiesOnHand == {None, Num(0), Num(20)}

\* Products.standard_production_time_hours of the product, when there is one
ProductTimes == {None, Num(0), Num(2)}

RequestedQtys == {0, 4, 5}

BaselineForecasts == {0, 250}

Columns(values) == UNION { [1..n -> values] : n \in 0..MaxRows }

\* evaluate_production_capacity: the rows of its query; product_time has the
\* product's row or none, available_capacity always has one row
ProductionCapacity(product_time, available_hours, requested_qty) ==
    LET total_available_hours == SqlSum(available_hours)
    IN  [i \in 1..Len(product_time) |->
            [required_hours |-> SqlTimes(product_time[i], Num(100 * requested_qty)),
             total_available_hours |-> total_available_hours,
             is_capacity_available |->
                SqlGe(total_available_hours,
                      SqlTimes(product_time[i], Num(100 * requested_qty)))]]

\* read_marketing_campaigns: campaign_uplift_qty, from the sum read
\* (a Decimal, of two places) and the baseline
CampaignUpliftQty(total_uplift_pct, baseline_forecast_mc) ==
    DecToInt(DecMulInt(DecDivInt(Dec(total_uplift_pct.v, 2), 100), baseline_forecast_mc))

AggregateInit ==
    /\ apc = "idle"
    /\ aggregate_args = EmptyDict
    /\ aggregate_result = EmptyDict

\* evaluate_production_capacity, on the rows its query reads
EvaluateProductionCapacity ==
    /\ apc = "idle"
    /\ \E product_time \in UNION { [1..n -> ProductTimes] : n \in 0..1 },
          available_hours \in Columns(AvailableHours),
          requested_qty \in RequestedQtys :
            /\ aggregate_args' = [tool |-> "evaluate_production_capacity",
                                  requested_qty |-> requested_qty,
                                  product_time |-> product_time,
                                  available_hours |-> available_hours]
            /\ aggregate_result' =
                    [sums |-> [total_available_hours |-> SqlSum(available_hours)],
                     result |-> ProductionCapacity(product_time, available_hours,
                                                   requested_qty)]
    /\ apc' = "returned"
    /\ UNCHANGED not_aggregate_vars

\* read_marketing_campaigns, on the rows its query reads
ReadMarketingCampaigns ==
    /\ apc = "idle"
    /\ \E predicted_uplift_pct \in Columns(PredictedUpliftPcts),
          baseline_forecast_mc \in BaselineForecasts :
            LET total_uplift_pct == Coalesce(SqlSum(predicted_uplift_pct), Num(0))
            IN  /\ aggregate_args' = [tool |-> "read_marketing_campaigns",
                                      baseline_forecast_mc |-> baseline_forecast_mc,
                                      predicted_uplift_pct |-> predicted_uplift_pct]
                /\ aggregate_result' =
                        [sums |-> [total_uplift_pct |-> total_uplift_pct],
                         result |-> <<[campaign_uplift_qty |->
                                        CampaignUpliftQty(total_uplift_pct,
                                                          baseline_forecast_mc)]>>]
    /\ apc' = "returned"
    /\ UNCHANGED not_aggregate_vars

\* the periods the calls of this family pass
SumPeriods == { <<"1", " ", "q", "u", "a", "r", "t", "e", "r">>, <<"1", " ", "d", "a", "y">> }

\* calculate_optimal_shift, on the rows its two queries read
CalculateOptimalShiftOfRows ==
    /\ apc = "idle"
    /\ \E forecasted_qty \in Columns(ForecastedQtys),
          available_hours \in Columns(AvailableHours),
          most_efficient_time \in {0, 2}, period \in SumPeriods :
            LET total_forecast == Coalesce(SqlSum(forecasted_qty), Num(0))
                total_available == Coalesce(SqlSum(available_hours), Num(0))
            IN  /\ aggregate_args' = [tool |-> "calculate_optimal_shift",
                                      period |-> period,
                                      most_efficient_time |-> most_efficient_time,
                                      forecasted_qty |-> forecasted_qty,
                                      available_hours |-> available_hours]
                /\ IF ParsePeriod(period) \in PeriodErrors
                   THEN /\ apc' = "raised"
                        /\ aggregate_result' =
                                [error |-> "ValueError", message |-> ParsePeriod(period)]
                   ELSE /\ apc' = "returned"
                        /\ aggregate_result' =
                                [sums |-> [total_forecast |-> total_forecast,
                                           total_available |-> total_available],
                                 result |-> OptimalShift(total_forecast.v,
                                                         Dec(total_available.v, 2),
                                                         most_efficient_time, 1)]
    /\ UNCHANGED not_aggregate_vars

\* get_component_sourcing_data, on the inventory rows of the latest snapshot
GetComponentSourcingDataOfRows ==
    /\ apc = "idle"
    /\ \E quantity_on_hand \in Columns(QuantitiesOnHand),
          cost_result \in { [standard_cost |-> c] : c \in StandardCosts } \cup {NoRow} :
            LET total_inventory == Coalesce(SqlSum(quantity_on_hand), Num(0))
            IN  /\ aggregate_args' = [tool |-> "get_component_sourcing_data",
                                      quantity_on_hand |-> quantity_on_hand]
                /\ aggregate_result' =
                        [sums |-> [total_inventory |-> total_inventory],
                         result |-> ComponentSourcingData(total_inventory.v, NoRow,
                                                          cost_result)]
    /\ apc' = "returned"
    /\ UNCHANGED not_aggregate_vars

\* the result, or the error, goes back to the caller
AggregateReturn ==
    /\ apc \in {"returned", "raised"}
    /\ apc' = "idle"
    /\ aggregate_args' = EmptyDict
    /\ aggregate_result' = EmptyDict
    /\ UNCHANGED not_aggregate_vars

AggregateNext ==
    \/ EvaluateProductionCapacity
    \/ ReadMarketingCampaigns
    \/ CalculateOptimalShiftOfRows
    \/ GetComponentSourcingDataOfRows
    \/ AggregateReturn

(***************************************************************************)
(* Claims about the tools that read a SUM                                  *)
(***************************************************************************)
\* the column a sum of the call was taken over
SummedColumn(name) ==
    CASE name = "total_available_hours" -> aggregate_args.available_hours
      [] name = "total_available" -> aggregate_args.available_hours
      [] name = "total_forecast" -> aggregate_args.forecasted_qty
      [] name = "total_uplift_pct" -> aggregate_args.predicted_uplift_pct
      [] name = "total_inventory" -> aggregate_args.quantity_on_hand

\* every value of the column is NULL (or there is no row)
AllNull(column) == \A i \in 1..Len(column) : IsNull(column[i])

\* C21: every sum over no row or over NULLs only is reported as 0, never as
\* null, for the forecast and capacity sums of calculate_optimal_shift, the
\* uplift sum of read_marketing_campaigns, the inventory sum of
\* get_component_sourcing_data and total_available_hours of
\* evaluate_production_capacity, whose is_capacity_available is then true or
\* false
C21_SumsReportedAsZero ==
    apc = "returned" =>
        IF aggregate_args.tool = "evaluate_production_capacity"
        THEN \A i \in 1..Len(aggregate_result.result) :
                LET row == aggregate_result.result[i]
                IN  /\ ~IsNull(row.total_available_hours)
                    /\ AllNull(aggregate_args.available_hours) =>
                            row.total_available_hours.v = 0
                    /\ ~IsNull(row.required_hours) => row.is_capacity_available.kind = "bool"
        ELSE \A name \in DOMAIN aggregate_result.sums :
                /\ ~IsNull(aggregate_result.sums[name])
                /\ AllNull(SummedColumn(name)) => aggregate_result.sums[name].v = 0


(***************************************************************************)
(* Claims about the lists the comparators are given                        *)
(***************************************************************************)
\* C23: after select_optimal_supplier returns, no record of mitigation_options
\* has gained a 'score' field, and after identify_efficiency_outliers returns,
\* no record of trim_performance_data has gained an 'efficiency_ratio' field;
\* the lists keep their length, order and contents (those of the options and
\* trims that were scored)
C23_InputsNotMutated ==
    /\ (supc = "selected" /\ scored_options # <<>>) =>
            /\ Len(supplier_args.mitigation_options) = Len(scored_options)
            /\ \A i \in 1..Len(scored_options) :
                    /\ "score" \notin DOMAIN supplier_args.mitigation_options[i]
                    /\ supplier_args.mitigation_options[i] = scored_options[i].option
    /\ mpc \in {"identified", "shifted", "simulated", "recommended"} =>
            /\ Len(trim_performance_data) = Len(scored_trims)
            /\ \A i \in 1..Len(scored_trims) :
                    /\ "efficiency_ratio" \notin DOMAIN trim_performance_data[i]
                    /\ trim_performance_data[i] = scored_trims[i].trim

\* C23 witness: select_optimal_supplier has scored two different options and
\* its list still holds them, in their order
C23_Witness ==
    /\ supc = "selected"
    /\ Len(scored_options) = 2
    /\ scored_options[1].option # scored_options[2].option
    /\ scored_options[1].score # scored_options[2].score
    /\ supplier_args.mitigation_options = <<scored_options[1].option, scored_options[2].option>>
(***************************************************************************)
(* montecarlo_shortage                                                     *)
(*                                                                         *)
(* transfer_quantities is a dict from a quantity to its cost.              *)
(***************************************************************************)
\* montecarlo_shortage: answer
answer ==
    ( "SNTF-25-CL-AWD" :>
        [ P1_ULSAN |->
            [optimal_quantity |-> 25,
             transfer_quantities |->
                (5 :> 78 @@ 10 :> 63 @@ 15 :> 52 @@ 20 :> 47 @@ 25 :> 11 @@
                 30 :> 66 @@ 35 :> 59 @@ 40 :> 80 @@ 45 :> 70 @@ 50 :> 61)],
          HUB_CENTRAL |->
            [optimal_quantity |-> 10,
             transfer_quantities |->
                (5 :> 58 @@ 10 :> 45 @@ 15 :> 59 @@ 20 :> 62 @@ 25 :> 61 @@
                 30 :> 53 @@ 35 :> 57 @@ 40 :> 60 @@ 45 :> 64 @@ 50 :> 55)] ] @@
      "IONIQ 6 Long Range AWD" :>
        [ HUB_CENTRAL |->
            [optimal_quantity |-> 10,
             transfer_quantities |->
                (5 :> 67 @@ 10 :> 12 @@ 15 :> 74 @@ 20 :> 59 @@ 25 :> 83 @@
                 30 :> 70 @@ 35 :> 91 @@ 40 :> 76 @@ 45 :> 88 @@ 50 :> 95)],
          WAREHOUSE_SOUTH |->
            [optimal_quantity |-> 5,
             transfer_quantities |->
                (5 :> 7 @@ 10 :> 80 @@ 15 :> 76 @@ 20 :> 91 @@ 25 :> 83 @@
                 30 :> 88 @@ 35 :> 92 @@ 40 :> 94 @@ 45 :> 85 @@ 50 :> 90)] ] @@
      "GRND-35-EX-2WD" :>
        [ P2_ASAN |->
            [optimal_quantity |-> 45,
             transfer_quantities |->
                (5 :> 73 @@ 10 :> 88 @@ 15 :> 92 @@ 20 :> 81 @@ 25 :> 95 @@
                 30 :> 85 @@ 35 :> 90 @@ 40 :> 87 @@ 45 :> 11 @@ 50 :> 78)],
          WAREHOUSE_SOUTH |->
            [optimal_quantity |-> 5,
             transfer_quantities |->
                (5 :> 13 @@ 10 :> 77 @@ 15 :> 93 @@ 20 :> 81 @@ 25 :> 89 @@
                 30 :> 85 @@ 35 :> 95 @@ 40 :> 98 @@ 45 :> 90 @@ 50 :> 97)],
          HUB_CENTRAL |->
            [optimal_quantity |-> 15,
             transfer_quantities |->
                (5 :> 72 @@ 10 :> 74 @@ 15 :> 60 @@ 20 :> 70 @@ 25 :> 78 @@
                 30 :> 71 @@ 35 :> 73 @@ 40 :> 75 @@ 45 :> 76 @@ 50 :> 77)] ] @@
      "MODEL-C-EV" :>
        [ HUB_CENTRAL |->
            [optimal_quantity |-> 15,
             transfer_quantities |->
                (5 :> 53 @@ 10 :> 54 @@ 15 :> 41 @@ 20 :> 59 @@ 25 :> 48 @@
                 30 :> 57 @@ 35 :> 50 @@ 40 :> 60 @@ 45 :> 52 @@ 50 :> 56)] ] )

\* answer.get(model_type, {}).get(location_id): None for a pair without data
ResultData(model_type, location_id) ==
    Get(Get(answer, model_type, EmptyDict), location_id, None)

\* a variant that takes the first quantity of the table
OptimalQOfFirstEntry(result_data) == SetMin(DOMAIN result_data.transfer_quantities)

\* montecarlo_shortage: optimal_q
OptimalQ(result_data) == result_data.optimal_quantity

\* montecarlo_shortage: what it returns for a pair with data
ShortageResult(result_data) ==
    [transfer_quantities |-> result_data.transfer_quantities,
     optimal_transfer_quantity |-> OptimalQ(result_data)]

\* model_type arguments: the four models with data, one of montecarlo_demand
\* only, and one with another spelling
ModelTypes ==
    { "SNTF-25-CL-AWD", "IONIQ 6 Long Range AWD", "GRND-35-EX-2WD", "MODEL-C-EV",
      "MODEL-B", "model-c-ev" }

\* location_id arguments
LocationIds == { "P1_ULSAN", "P2_ASAN", "HUB_CENTRAL", "WAREHOUSE_SOUTH", "HUB_NORTH" }

\* current_inv arguments
CurrentInvs == {0, 20, 40}

\* transfer_cost_per_unit arguments
TransferCosts == {40, 60}

ShortageInit ==
    /\ shortage_pc = "idle"
    /\ shortage_args = EmptyDict
    /\ shortage_result = EmptyDict

\* montecarlo_shortage
MontecarloShortage ==
    /\ shortage_pc = "idle"
    /\ \E current_inv \in CurrentInvs, model_type \in ModelTypes,
          location_id \in LocationIds, transfer_cost_per_unit \in TransferCosts :
            LET result_data == ResultData(model_type, location_id)
            IN  /\ shortage_args' = [current_inv |-> current_inv,
                                     model_type |-> model_type,
                                     location_id |-> location_id,
                                     transfer_cost_per_unit |-> transfer_cost_per_unit]
                /\ IF result_data = None
                   THEN /\ shortage_pc' = "raised"
                        /\ shortage_result' = [error |-> "ValueError"]
                   ELSE /\ shortage_pc' = "returned"
                        /\ shortage_result' = ShortageResult(result_data)
    /\ UNCHANGED not_shortage_vars

\* the result, or the error, goes back to the caller
ShortageReturn ==
    /\ shortage_pc \in {"returned", "raised"}
    /\ shortage_pc' = "idle"
    /\ shortage_args' = EmptyDict
    /\ shortage_result' = EmptyDict
    /\ UNCHANGED not_shortage_vars

ShortageNext == MontecarloShortage \/ ShortageReturn

(***************************************************************************)
(* Claims about montecarlo_shortage                                        *)
(***************************************************************************)
\* C24: for every pair of model_type and location_id montecarlo_shortage has
\* data for, the optimal_transfer_quantity returned is a quantity of the
\* transfer_quantities table returned, and its cost is strictly below the cost
\* of every other quantity of that table
C24_OptimalIsStrictMinimum ==
    shortage_pc = "returned" =>
        LET table == shortage_result.transfer_quantities
            optimal == shortage_result.optimal_transfer_quantity
        IN  /\ table = answer[shortage_args.model_type][shortage_args.location_id].transfer_quantities
            /\ optimal \in DOMAIN table
            /\ \A quantity \in DOMAIN table \ {optimal} : table[optimal] < table[quantity]

\* C24 witness: the call for GRND-35-EX-2WD at HUB_CENTRAL returns 15, whose
\* cost 60 is the least of a table that is not in ascending order
C24_Witness ==
    /\ shortage_pc = "returned"
    /\ shortage_args.model_type = "GRND-35-EX-2WD"
    /\ shortage_args.location_id = "HUB_CENTRAL"
    /\ shortage_result.optimal_transfer_quantity = 15
    /\ shortage_result.transfer_quantities[15] = 60
    /\ shortage_result.transfer_quantities[5] = 72

(***************************************************************************)
(* PostgresConnection and the calls of the database tools                  *)
(*                                                                         *)
(* calls is the sequence of the calls made so far, each with the place it  *)
(* has reached; connections is the sequence of the connections             *)
(* psycopg2.connect has handed out, each open or closed.  Calls run side   *)
(* by side.  Three tools stand for the sixteen: one that goes straight to  *)
(* its with block, one that raises and one that returns before it for an   *)
(* argument it does not take.                                              *)
(***************************************************************************)
\* at most MaxCalls calls are made
MaxCalls == 2

DatabaseTools == {"calculate_sales_history", "calculate_optimal_shift", "calculate_lifetime_demand"}

\* the queries a tool executes inside its with block
QueriesOf(tool) ==
    CASE tool = "calculate_sales_history" -> 1
      [] tool = "calculate_optimal_shift" -> 2
      [] tool = "calculate_lifetime_demand" -> 4

\* what a tool does before its with block with an argument it does not take:
\* calculate_optimal_shift raises ValueError for the period,
\* calculate_lifetime_demand returns zeros for an empty affected_products
BeforeConnecting(tool, argument_taken) ==
    IF argument_taken THEN "entering"
    ELSE CASE tool = "calculate_optimal_shift" -> "raised"
           [] tool = "calculate_lifetime_demand" -> "returned"
           [] OTHER -> "entering"

\* PostgresConnection.__init__: conn is None (0) until __enter__ connects
NewCall(tool, argument_taken) ==
    [tool |-> tool, argument_taken |-> argument_taken, pc |-> "called", conn |-> 0,
     queries |-> 0, exc_type |-> "None"]

\* a variant of __exit__ that closes the connection only when the block ended
\* without an exception
ConnectionsAfterExitOnSuccess(conns, conn, exc_type) ==
    IF conn # 0 /\ exc_type = "None" THEN [conns EXCEPT ![conn].state = "closed"] ELSE conns

\* PostgresConnection.__exit__: if self.conn: self.conn.close()
ConnectionsAfterExit(conns, conn, exc_type) ==
    IF conn # 0 THEN [conns EXCEPT ![conn].state = "closed"] ELSE conns

ConnectionInit ==
    /\ calls = <<>>
    /\ connections = <<>>

\* a tool is called
CallTool ==
    /\ Len(calls) < MaxCalls
    /\ \E tool \in DatabaseTools, argument_taken \in BOOLEAN :
            calls' = Append(calls, NewCall(tool, argument_taken))
    /\ UNCHANGED connections
    /\ UNCHANGED not_connection_vars

\* the statements of a tool before its with block
RunToWith(c) ==
    /\ calls[c].pc = "called"
    /\ calls' = [calls EXCEPT ![c].pc = BeforeConnecting(calls[c].tool, calls[c].argument_taken)]
    /\ UNCHANGED connections
    /\ UNCHANGED not_connection_vars

\* PostgresConnection.__enter__: psycopg2.connect hands out a new connection, or
\* raises and leaves conn None
Enter(c) ==
    /\ calls[c].pc = "entering"
    /\ \/ /\ connections' = Append(connections, [state |-> "open", opened_by |-> c])
          /\ calls' = [calls EXCEPT ![c].pc = "connected",
                                    ![c].conn = Len(connections) + 1,
                                    ![c].queries = QueriesOf(calls[c].tool)]
       \/ /\ connections' = connections
          /\ calls' = [calls EXCEPT ![c].pc = "raised", ![c].exc_type = "OperationalError"]
    /\ UNCHANGED not_connection_vars

\* cur.execute of the next query: it answers, or raises
Execute(c) ==
    /\ calls[c].pc = "connected"
    /\ \/ calls' = [calls EXCEPT ![c].queries = @ - 1,
                                 ![c].pc = IF calls[c].queries = 1 THEN "exiting" ELSE "connected"]
       \/ calls' = [calls EXCEPT ![c].pc = "exiting", ![c].exc_type = "Error"]
    /\ UNCHANGED connections
    /\ UNCHANGED not_connection_vars

\* PostgresConnection.__exit__, at the end of the with block or on the way out
\* of it with an exception; then the call returns, or raises
Exit(c) ==
    /\ calls[c].pc = "exiting"
    /\ connections' = ConnectionsAfterExit(connections, calls[c].conn, calls[c].exc_type)
    /\ calls' = [calls EXCEPT ![c].pc = IF calls[c].exc_type = "None" THEN "returned" ELSE "raised"]
    /\ UNCHANGED not_connection_vars

ConnectionNext ==
    \/ CallTool
    \/ \E c \in 1..Len(calls) : RunToWith(c)
    \/ \E c \in 1..Len(calls) : Enter(c)
    \/ \E c \in 1..Len(calls) : Execute(c)
    \/ \E c \in 1..Len(calls) : Exit(c)

(***************************************************************************)
(* Claims about the connections                                            *)
(***************************************************************************)
\* the connections a call has opened
OpenedBy(c) == { k \in 1..Len(connections) : connections[k].opened_by = c }

\* the call is over: it has returned or raised
Over(c) == calls[c].pc \in {"returned", "raised"}

\* the call has passed psycopg2.connect
Connected(c) == calls[c].conn # 0

\* no connection is held by two calls, and a call holds a connection it opened
NotShared ==
    \A c \in 1..Len(calls) :
        Connected(c) =>
            /\ connections[calls[c].conn].opened_by = c
            /\ \A d \in 1..Len(calls) : d # c => calls[d].conn # calls[c].conn

\* C30 as stated: every database tool call opens exactly one connection, closed
\* by the time the call returns or raises; no call leaves a connection open and
\* no connection is shared between two calls
C30_Original ==
    /\ \A c \in 1..Len(calls) :
            Over(c) =>
                /\ Cardinality(OpenedBy(c)) = 1
                /\ \A k \in OpenedBy(c) : connections[k].state = "closed"
    /\ NotShared

\* C30, amended: every database tool call opens at most one connection - none
\* when it returns or raises before its with block, or when connecting fails,
\* and exactly one otherwise - and that connection is closed by the time the
\* call returns or raises, also when a query fails; no call leaves a connection
\* open and no connection is shared between two calls
C30_Amended ==
    /\ \A c \in 1..Len(calls) :
            /\ Cardinality(OpenedBy(c)) = IF Connected(c) THEN 1 ELSE 0
            /\ Connected(c) <=> calls[c].pc \in {"connected", "exiting"} \/
                                (Over(c) /\ calls[c].exc_type # "OperationalError"
                                         /\ BeforeConnecting(calls[c].tool,
                                                             calls[c].argument_taken) = "entering")
            /\ Over(c) => \A k \in OpenedBy(c) : connections[k].state = "closed"
    /\ NotShared

\* C30 witness: the first call has raised out of a failed query and its
\* connection is closed, while the second call is still inside its with block
\* with a connection of its own
C30_Witness ==
    /\ Len(calls) = 2
    /\ calls[1].pc = "raised" /\ calls[1].exc_type = "Error"
    /\ calls[1].conn # 0
    /\ connections[calls[1].conn].state = "closed"
    /\ calls[2].pc = "connected"
    /\ calls[2].conn # calls[1].conn
    /\ connections[calls[2].conn].state = "open"

(***************************************************************************)
(* Specifications                                                          *)
(***************************************************************************)
TcoInit ==
    /\ tpc = "idle"
    /\ tco_args = EmptyDict
    /\ tco_results = <<>>
    /\ tco_answer = EmptyDict

MixInit ==
    /\ mpc = "idle"
    /\ performance_args = EmptyDict
    /\ trim_performance_data = <<>>
    /\ scored_trims = <<>>
    /\ outliers = EmptyDict
    /\ optimal_simulation_parameters = EmptyDict
    /\ simulation_result = EmptyDict
    /\ mix_answer = EmptyDict

Init ==
    /\ RouteInit /\ ShiftInit /\ TcoInit /\ SupplierInit
    /\ MixInit /\ IntentInit /\ LifetimeInit
    /\ AggregateInit /\ ShortageInit /\ ConnectionInit

SpecRoute == Init /\ [][RouteNext]_vars

SpecShift == Init /\ [][ShiftNext]_vars

SpecTco == Init /\ [][TcoNext]_vars

SpecSupplier == Init /\ [][SupplierNext]_vars

SpecMix == Init /\ [][MixNext]_vars

SpecIntent == Init /\ [][IntentNext]_vars

SpecLifetime == Init /\ [][LifetimeNext]_vars

SpecTools == Init /\ [][ToolsNext]_vars

SpecAggregate == Init /\ [][AggregateNext]_vars

SpecShortage == Init /\ [][ShortageNext]_vars

SpecConnection == Init /\ [][ConnectionNext]_vars

====
